---- MODULE Spec2Model ----
(***************************************************************************)
(* A model of the multi-objective ILS for the job sequencing and tool      *)
(* switching problem on non-identical parallel machines (SSP-NPM):         *)
(* the Pareto archive (ParetoWall), the objective evaluators of a machine  *)
(* sequence, the neighborhood generators and the perturbation, variable    *)
(* neighborhood descent and the constructive heuristic.                     *)
(*                                                                         *)
(* The module holds several specifications over one set of variables; each *)
(* specification drives one component and leaves the variables of the      *)
(* other components at their idle values.                                  *)
(***************************************************************************)
EXTENDS Integers, Sequences, FiniteSets, TLC

VARIABLES
    impl,             \* archive: which ParetoWall class ("numba" or "poo")
    max_size,         \* archive: ParetoWall.max_size
    objectives_keys,  \* archive: ParetoWall.objectives_keys (a list of names)
    solutions,        \* archive: ParetoWall._solutions (a list of objective records)
    ret,              \* archive: what the last add call returned
    path,             \* archive: the return statement the last add call left by
    instance_data,    \* the problem instance (read-only once chosen)
    eval_pc,          \* evaluation: "new", "running" (inside the loops) or "done"
    machine_jobs,     \* evaluation: the job sequence of the machine evaluated
    idx,              \* evaluation: how many jobs of machine_jobs are processed
    numba_ts,         \* evaluation: calculate_tool_switches_for_machine (magazine, switches)
    numba_mk,         \* evaluation: calculate_makespan_for_machine (magazine, elapsed_time)
    numba_ft,         \* evaluation: calculate_flowtime_for_machine (magazine, elapsed_time, flowtime)
    machine,          \* evaluation: Machine._calculate_metrics (magazine, tool_switches, ...)
    objectives,       \* evaluation: Solution.objectives once the evaluation is done
    job_assignment,   \* moves: the assignment table the search is at
    last_move,        \* moves: the operation that produced job_assignment
    vnd_pc,           \* VND: "loop" (inside the while loop) or "done"
    initial_solution, \* VND: the solution the descent was called with
    current_best_solution, \* VND: [job_assignment, objectives] of the current best
    vnd_k,            \* VND: k, the index of the neighborhood explored next
    vnd_obj_x,        \* VND: obj_x, the first axis of the acceptance test
    vnd_obj_y,        \* VND: obj_y, the second axis of the acceptance test
    con_pc,           \* construction: "phase1", "phase2", "returned" or "diverged"
    con_impl,         \* construction: "numba" or "poo"
    con_i,            \* construction: the machine phase 1 serves next
    jobs_list,        \* construction: the shuffled jobs still to place
    remaining_jobs,   \* construction: the list the Numba while loop tests
    ils_pc,           \* ILS: "seed", "iterate", "vnd", "returned" or "crashed"
    ils_i,            \* ILS: initial solutions offered to the archive so far
    ils_iteration,    \* ILS: iterations of the main loop completed
    pareto_archive,   \* ILS: the members of its ParetoWall, each with its assignment
    heap,             \* arrays: the content of every array object; object 1 is the source
    emitted           \* arrays: the objects a generator call returned, in order

archVars == <<impl, max_size, objectives_keys, solutions, ret, path>>
evalVars == <<eval_pc, machine_jobs, idx, numba_ts, numba_mk, numba_ft, machine, objectives>>

moveVars == <<job_assignment, last_move>>

vndVars == <<vnd_pc, initial_solution, current_best_solution, vnd_k, vnd_obj_x, vnd_obj_y>>

conVars == <<con_pc, con_impl, con_i, jobs_list, remaining_jobs>>

ilsVars == <<ils_pc, ils_i, ils_iteration, pareto_archive>>

vars == <<archVars, instance_data, evalVars, moveVars, vndVars, conVars, ilsVars, heap, emitted>>

\* what the actions of each component leave alone
archRest == <<instance_data, evalVars, moveVars, vndVars, conVars, ilsVars, heap, emitted>>
evalRest == <<archVars, moveVars, vndVars, conVars, ilsVars, heap, emitted>>
moveRest == <<archVars, evalVars, vndVars, conVars, ilsVars, heap, emitted>>
vndRest == <<archVars, evalVars, moveVars, conVars, ilsVars, heap, emitted>>
conRest == <<archVars, evalVars, last_move, vndVars, ilsVars, heap, emitted>>
ilsRest == <<archVars, evalVars, last_move, heap, emitted>>
frameRest == <<archVars, evalVars, vndVars, conVars, ilsVars>>

(***************************************************************************)
(* Bounds of the model.                                                    *)
(***************************************************************************)
\* objective values offered to the archive range over 0..MaxObjective
MaxObjective == 2
\* the archive is built with max_size in 1..MaxArchiveSize and receives add calls
\* while it holds at most MaxArchiveSize members
MaxArchiveSize == 2
\* evaluated machine sequences hold at most MaxSeqJobs jobs
MaxSeqJobs == 3
\* the instances of the evaluation have MaxTools tools
MaxTools == 3
\* the instances of the moves have up to MaxMoveJobs jobs
MaxMoveJobs == 3
\* the one-machine instances of the moves have up to MaxOneMachineJobs jobs
MaxOneMachineJobs == 4
\* the perturbation is called with a strength in 1..MaxStrength
MaxStrength == 2
\* the ILS is run with initial_pop_size = InitialPopSize
InitialPopSize == 2
\* the ILS is run with max_iterations = MaxIterations
MaxIterations == 2
\* the instances of the ILS have up to MaxIlsJobs jobs
MaxIlsJobs == 2
\* the instances of the descent under fairness have up to MaxFairJobs jobs
MaxFairJobs == 2

(***************************************************************************)
(* Helpers on sequences.                                                   *)
(***************************************************************************)
Range(s) == { s[i] : i \in 1..Len(s) }

\* the sequence s without its element at position i
RemoveAt(s, i) == [ j \in 1..(Len(s) - 1) |-> IF j < i THEN s[j] ELSE s[j + 1] ]

\* product of the function f over the elements of the finite set S
RECURSIVE ProdOver(_, _)
ProdOver(S, f) ==
    IF S = {} THEN 1
    ELSE LET x == CHOOSE y \in S : TRUE IN f[x] * ProdOver(S \ {x}, f)

\* sum of the function f over the elements of the finite set S
RECURSIVE SumOver(_, _)
SumOver(S, f) ==
    IF S = {} THEN 0
    ELSE LET x == CHOOSE y \in S : TRUE IN f[x] + SumOver(S \ {x}, f)

(***************************************************************************)
(* Solutions as the archive sees them: the objectives dictionary.          *)
(***************************************************************************)
ObjectiveNames == {"tool_switches", "makespan", "flowtime"}

Objectives == [ObjectiveNames -> 0..MaxObjective]

\* the key lists an archive is configured with: the default of each class and a
\* single key
KeyLists ==
    { <<"tool_switches", "makespan">>, <<"makespan", "flowtime">>, <<"flowtime">> }

\* Solution.__eq__: two solutions are equal when their objectives dictionaries are
SolutionEq(s1, s2) == \A o \in ObjectiveNames : s1[o] = s2[o]

\* "x in list" when solutions compare by identity: a new object is in no list
InListByIdentity(x, list) == FALSE

\* python's "x in list": some element equals x under __eq__
InList(x, list) == \E i \in 1..Len(list) : SolutionEq(list[i], x)

\* a dominance test without the strict part: no worse on every key
dominates_on_objectives_weak(obj1, obj2, keys) ==
    \A i \in 1..Len(keys) : obj1[keys[i]] <= obj2[keys[i]]

\* dominates_on_objectives: <= on every key, < on at least one
dominates_on_objectives(obj1, obj2, keys) ==
    /\ \A i \in 1..Len(keys) : obj1[keys[i]] <= obj2[keys[i]]
    /\ \E i \in 1..Len(keys) : obj1[keys[i]] < obj2[keys[i]]

\* Solution.dominates: the test over every key of self.objectives
dominates(self, other) ==
    /\ \A obj \in DOMAIN self : self[obj] <= other[obj]
    /\ \E obj \in DOMAIN self : self[obj] < other[obj]

\* Solution.dominates_on_axes: the same test on the two named axes
dominates_on_axes(s1, s2, obj_x, obj_y) ==
    /\ \A o \in {obj_x, obj_y} : s1[o] <= s2[o]
    /\ \E o \in {obj_x, obj_y} : s1[o] < s2[o]

(***************************************************************************)
(* Crowding distances.  The code adds float quotients; the model keeps     *)
(* them exact: every finite distance is scaled by the product of the       *)
(* ranges of the keys whose range is not zero.  Values that are used more  *)
(* than once are bound by a quantifier over a singleton set, which makes   *)
(* TLC compute them once.                                                  *)
(***************************************************************************)
\* the rank of index i in the argsort of vals (stable: ties keep index order)
RankOf(vals, i) ==
    1 + Cardinality({ j \in 1..Len(vals) :
                        vals[j] < vals[i] \/ (vals[j] = vals[i] /\ j < i) })

\* np.argsort(vals): sorted_indices
argsort(vals) ==
    [ r \in 1..Len(vals) |-> CHOOSE i \in 1..Len(vals) : RankOf(vals, i) = r ]

KeyValues(sols, key) == [ i \in 1..Len(sols) |-> sols[i][key] ]

\* np.inf: finite distances are >= 0, so a negative number can stand for it
INF == -1

\* the distances, given for each key k its values vals[k], their argsort sorted[k]
\* and max_val - min_val as range[k]
DistancesOf(n, vals, sorted, range) ==
    LET live == { k \in DOMAIN range : range[k] # 0 }
        IsInfinite(i) == \E k \in live : sorted[k][1] = i \/ sorted[k][n] = i
        Scaled(i) ==
            LET term == [ k \in live |->
                    LET r == RankOf(vals[k], i)
                    IN  (vals[k][sorted[k][r + 1]] - vals[k][sorted[k][r - 1]])
                            * ProdOver(live \ {k}, range) ]
            IN  SumOver(live, term)
    IN  [ i \in 1..n |-> IF IsInfinite(i) THEN INF ELSE Scaled(i) ]

DistancesFrom(n, nkeys, vals, sorted) ==
    CHOOSE d \in
        { DistancesOf(n, vals, sorted, range) :
            range \in { [ k \in 1..nkeys |-> vals[k][sorted[k][n]] - vals[k][sorted[k][1]] ] } } : TRUE

\* calculate_crowding_distances: INF or the scaled finite distance of each member
calculate_crowding_distances(sols, keys) ==
    CHOOSE d \in
        { CHOOSE e \in { DistancesFrom(Len(sols), Len(keys), vals, sorted) :
                            sorted \in { [ k \in 1..Len(keys) |-> argsort(vals[k]) ] } } : TRUE :
            vals \in { [ k \in 1..Len(keys) |-> KeyValues(sols, keys[k]) ] } } : TRUE

(***************************************************************************)
(* ParetoWall of the Numba package.                                        *)
(***************************************************************************)
\* the removal of _trim_by_crowding_distance, given the distances
RemoveSmallest(sols, distances) ==
    LET finite == { i \in 1..Len(sols) : distances[i] # INF }
    IN  IF finite = {} THEN sols
        ELSE
            LET candidates ==
                    { i \in finite : \A j \in finite : distances[i] <= distances[j] }
                remove_idx == CHOOSE i \in candidates : \A j \in candidates : i <= j
            IN  RemoveAt(sols, remove_idx)

\* ParetoWall._trim_by_crowding_distance: the list after the call
trim_by_crowding_distance(sols, keys) ==
    IF Len(sols) < 3 THEN sols
    ELSE CHOOSE r \in { RemoveSmallest(sols, d) :
                            d \in {calculate_crowding_distances(sols, keys)} } : TRUE

\* add without the removal of the members the new solution dominates
add_keeping_dominated(sols, keys, size, new_solution) ==
    IF sols = <<>> THEN <<<<new_solution>>, "True", "first">>
    ELSE IF \E i \in 1..Len(sols) : dominates_on_objectives(sols[i], new_solution, keys)
    THEN <<sols, "False", "dominated">>
    ELSE IF ~InList(new_solution, sols)
         THEN IF Len(sols) + 1 > size
              THEN <<trim_by_crowding_distance(Append(sols, new_solution), keys),
                     "True", "trimmed">>
              ELSE <<Append(sols, new_solution), "True", "inserted">>
         ELSE <<sols, "False", "duplicate">>

\* ParetoWall.add: <<list after the call, returned value, return statement taken>>
add(sols, keys, size, new_solution) ==
    IF sols = <<>> THEN <<<<new_solution>>, "True", "first">>
    ELSE IF \E i \in 1..Len(sols) : dominates_on_objectives(sols[i], new_solution, keys)
    THEN <<sols, "False", "dominated">>
    ELSE
        LET NotDominated(s) == ~dominates_on_objectives(new_solution, s, keys)
            Insert(non_dominated) ==
                IF ~InList(new_solution, non_dominated)
                THEN IF Len(non_dominated) + 1 > size
                     THEN <<trim_by_crowding_distance(Append(non_dominated, new_solution), keys),
                            "True", "trimmed">>
                     ELSE <<Append(non_dominated, new_solution), "True", "inserted">>
                ELSE <<sols, "False", "duplicate">>
        IN  CHOOSE r \in { Insert(nd) : nd \in {SelectSeq(sols, NotDominated)} } : TRUE

(***************************************************************************)
(* ParetoWall of the POO package (two keys; lists are re-sorted in place). *)
(***************************************************************************)
\* list.sort(key=...): the stable sort of the list s by the integers vals
StableSort(s, vals) ==
    CHOOSE q \in { [ r \in 1..Len(s) |-> s[order[r]] ] : order \in {argsort(vals)} } : TRUE

\* max_val - min_val of each key over the list
PooRanges(sols, keys) ==
    [ k \in 1..Len(keys) |->
        LET vals == Range(KeyValues(sols, keys[k]))
        IN  (CHOOSE x \in vals : \A y \in vals : x >= y)
                - (CHOOSE x \in vals : \A y \in vals : x <= y) ]

\* one pass of the loop over the keys, on the list already sorted by keys[k]: the
\* ends get infinity, the others add their quotient (scaled as above)
PooKeyPass(list, dist, keys, k, range) ==
    LET n == Len(list)
        live == { j \in DOMAIN range : range[j] # 0 }
    IN  IF range[k] = 0 THEN dist
        ELSE [ r \in 1..n |->
                IF r = 1 \/ r = n \/ dist[r] = INF THEN INF
                ELSE dist[r] + (list[r + 1][keys[k]] - list[r - 1][keys[k]])
                                    * ProdOver(live \ {k}, range) ]

\* the loop over the keys from keys[k] on: <<the list as sorted last, the
\* crowding_distance of each of its members>>
RECURSIVE PooKeyLoop(_, _, _, _, _)
PooKeyLoop(list, dist, keys, k, range) ==
    IF k > Len(keys) THEN <<list, dist>>
    ELSE CHOOSE res \in
            { PooKeyLoop(StableSort(list, vals), PooKeyPass(StableSort(list, vals),
                            StableSort(dist, vals), keys, k, range), keys, k + 1, range) :
                vals \in {KeyValues(list, keys[k])} } : TRUE

\* sort(key=crowding_distance) and pop(0), given the distances of the list
PopSmallest(sols, distances) ==
    LET Before(j, i) ==
            \/ distances[j] # INF /\ distances[i] = INF
            \/ distances[j] # INF /\ distances[i] # INF /\ distances[j] < distances[i]
            \/ distances[j] = distances[i] /\ j < i
        \* the member that the sort puts at position r
        At(r) == CHOOSE i \in 1..Len(sols) :
                    Cardinality({ j \in 1..Len(sols) : Before(j, i) }) = r - 1
    IN  [ r \in 1..(Len(sols) - 1) |-> sols[At(r + 1)] ]

\* ParetoWall._trim_by_crowding_distance (POO): the list after the call
poo_trim_by_crowding_distance(sols, keys) ==
    IF Len(sols) < 3 THEN sols
    ELSE CHOOSE r \in
            { PopSmallest(res[1], res[2]) :
                res \in { PooKeyLoop(sols, [ i \in 1..Len(sols) |-> 0 ], keys, 1,
                                     PooRanges(sols, keys)) } } : TRUE

\* ParetoWall.add (POO): <<list after the call, returned value, return statement taken>>
poo_add(sols, keys, size, new_solution) ==
    IF \E i \in 1..Len(sols) :
          dominates_on_axes(sols[i], new_solution, keys[1], keys[2])
    THEN <<sols, "None", "dominated">>
    ELSE
        LET NotDominated(s) == ~dominates_on_axes(new_solution, s, keys[1], keys[2])
            Insert(kept) ==
                IF ~InList(new_solution, kept)
                THEN IF Len(kept) + 1 > size
                     THEN <<poo_trim_by_crowding_distance(Append(kept, new_solution), keys),
                            "True", "trimmed">>
                     ELSE <<Append(kept, new_solution), "True", "inserted">>
                ELSE <<kept, "False", "duplicate">>
        IN  CHOOSE r \in { Insert(kept) : kept \in {SelectSeq(sols, NotDominated)} } : TRUE

(***************************************************************************)
(* The evaluation of one machine sequence.  A magazine is the set of the   *)
(* tools it holds (the Numba code keeps a 0/1 vector over the tools).      *)
(***************************************************************************)
\* sys.maxsize, narrowed to the largest integer TLC has; it is only compared
INT_INFINITY == 2147483647

\* the k lowest-numbered tools of S: the first k entries of np.where(...)[0]
FirstK(S, k) == { t \in S : Cardinality({ u \in S : u < t }) < k }

\* the loop body when the overflow branch forgets to replace the magazine
ts_load_keeping_all(magazine, job_tools, magazine_capacity) ==
    LET needed_tools == magazine \cup job_tools
        tools_count == Cardinality(needed_tools)
    IN  << needed_tools,
           IF tools_count > magazine_capacity THEN tools_count - magazine_capacity ELSE 0 >>

\* one iteration of the loop of calculate_tool_switches_for_machine:
\* <<magazine after the job, switches counted for it>>
ts_load(magazine, job_tools, magazine_capacity) ==
    LET needed_tools == magazine \cup job_tools
        tools_count == Cardinality(needed_tools)
        remaining_capacity == magazine_capacity - Cardinality(job_tools)
    IN  IF tools_count > magazine_capacity
        THEN << job_tools \cup (IF remaining_capacity > 0
                                THEN FirstK(magazine \ job_tools, remaining_capacity)
                                ELSE {}),
                tools_count - magazine_capacity >>
        ELSE << needed_tools, 0 >>

\* phase 2 when the switches of an overflow are not charged
mk_load_without_switches(magazine, job_tools, magazine_capacity) ==
    << ts_load(magazine, job_tools, magazine_capacity)[1], 0 >>

\* one iteration of phase 2 of calculate_makespan_for_machine:
\* <<magazine after the job, num_switches>>
mk_load(magazine, job_tools, magazine_capacity) ==
    LET needed_tools == magazine \cup job_tools
        tools_count == Cardinality(needed_tools)
        remaining_capacity == magazine_capacity - Cardinality(job_tools)
    IN  IF tools_count > magazine_capacity
        THEN << job_tools \cup (IF remaining_capacity > 0
                                THEN FirstK(magazine \ job_tools, remaining_capacity)
                                ELSE {}),
                tools_count - magazine_capacity >>
        ELSE << needed_tools, 0 >>

\* phase 2 when an overflow is charged one switch for every tool of the job that
\* is loaded
ft_load_charging_loaded_tools(magazine, job_tools, magazine_capacity) ==
    << mk_load(magazine, job_tools, magazine_capacity)[1],
       IF Cardinality(magazine \cup job_tools) > magazine_capacity
       THEN Cardinality(job_tools \ magazine) ELSE 0 >>

\* one iteration of phase 2 of calculate_flowtime_for_machine:
\* <<magazine after the job, num_switches>>
ft_load(magazine, job_tools, magazine_capacity) ==
    LET needed_tools == magazine \cup job_tools
        tools_count == Cardinality(needed_tools)
        remaining_capacity == magazine_capacity - Cardinality(job_tools)
    IN  IF tools_count > magazine_capacity
        THEN << job_tools \cup (IF remaining_capacity > 0
                                THEN FirstK(magazine \ job_tools, remaining_capacity)
                                ELSE {}),
                tools_count - magazine_capacity >>
        ELSE << needed_tools, 0 >>

\* the scan for start_switch_index, from position i (0-based) with the magazine
\* loaded so far: <<magazine of the prefix, start_switch_index>>
RECURSIVE find_start_index(_, _, _, _, _)
find_start_index(jobs, matrix, magazine_capacity, i, magazine) ==
    IF i >= Len(jobs) THEN << magazine, Len(jobs) >>
    ELSE LET temp_magazine == magazine \cup matrix[jobs[i + 1]]
         IN  IF Cardinality(temp_magazine) > magazine_capacity
             THEN << magazine, i >>
             ELSE find_start_index(jobs, matrix, magazine_capacity, i + 1, temp_magazine)

\* fill_tools_distances: distances[tool][i], the position of the first job from
\* position i on that uses the tool, INT_INFINITY when there is none
RECURSIVE tool_distance(_, _, _, _)
tool_distance(jobs, matrix, tool, i) ==
    IF tool \in matrix[jobs[i + 1]] THEN i
    ELSE IF i = Len(jobs) - 1 THEN INT_INFINITY
    ELSE tool_distance(jobs, matrix, tool, i + 1)

fill_tools_distances(jobs, matrix, num_tools) ==
    [ tool \in 0..(num_tools - 1) |->
        [ i \in 0..(Len(jobs) - 1) |-> tool_distance(jobs, matrix, tool, i) ] ]

\* how many entries the slice list[:stop] of a list of length len holds
SliceLen(len, stop) ==
    IF stop >= 0 THEN (IF stop < len THEN stop ELSE len)
    ELSE (IF len + stop > 0 THEN len + stop ELSE 0)

\* a load that keeps the candidates of lowest tool index, whatever their next use
machine_load_keeping_lowest_index(magazine, tools_for_current_job, capacity, tools_distances, i) ==
    LET empty_slots == capacity - Cardinality(tools_for_current_job)
        removal_candidates == magazine \ tools_for_current_job
        excess == Cardinality(removal_candidates) - empty_slots
    IN  << tools_for_current_job \cup FirstK(removal_candidates, empty_slots),
           IF excess > 0 THEN excess ELSE 0 >>

\* one iteration of phase 2 of Machine._calculate_metrics at position i:
\* <<magazine after the job, num_switches>>
machine_load(magazine, tools_for_current_job, capacity, tools_distances, i) ==
    LET empty_slots == capacity - Cardinality(tools_for_current_job)
        removal_candidates == magazine \ tools_for_current_job
        \* (distance, tool) pairs in sorted order
        Before(u, t) ==
            \/ tools_distances[u][i] < tools_distances[t][i]
            \/ tools_distances[u][i] = tools_distances[t][i] /\ u < t
        kept == SliceLen(Cardinality(removal_candidates), empty_slots)
        tools_to_keep ==
            { t \in removal_candidates :
                Cardinality({ u \in removal_candidates : Before(u, t) }) < kept }
        excess == Cardinality(removal_candidates) - empty_slots
    IN  << tools_for_current_job \cup tools_to_keep,
           IF excess > 0 THEN excess ELSE 0 >>

\* Machine._initialize_magazine_and_find_start_index from position i:
\* <<self.magazine, returned index>>
RECURSIVE initialize_magazine_and_find_start_index(_, _, _, _, _)
initialize_magazine_and_find_start_index(jobs, matrix, capacity, i, magazine) ==
    IF i >= Len(jobs) THEN << magazine, INT_INFINITY >>
    ELSE LET temp_magazine == magazine \cup matrix[jobs[i + 1]]
         IN  IF Cardinality(temp_magazine) > capacity
             THEN << magazine, i >>
             ELSE initialize_magazine_and_find_start_index(jobs, matrix, capacity, i + 1,
                                                           temp_magazine)

\* the locals of calculate_tool_switches_for_machine before its loop
TsStart == [magazine |-> {}, switches |-> 0]

\* a loop body that charges a switch for every tool it loads into the magazine
TsStep_charging_loads(st, job_id, matrix, magazine_capacity) ==
    CHOOSE n \in { [magazine |-> r[1],
                    switches |-> st.switches + Cardinality(matrix[job_id] \ st.magazine)] :
                    r \in {ts_load(st.magazine, matrix[job_id], magazine_capacity)} } : TRUE

\* calculate_tool_switches_for_machine: the loop body for job_id
TsStep(st, job_id, matrix, magazine_capacity) ==
    CHOOSE n \in { [magazine |-> r[1], switches |-> st.switches + r[2]] :
                    r \in {ts_load(st.magazine, matrix[job_id], magazine_capacity)} } : TRUE

\* the locals of calculate_makespan_for_machine before phase 1
MkStart(jobs, matrix, magazine_capacity) ==
    CHOOSE n \in { [magazine |-> r[1], start_switch_index |-> r[2], elapsed_time |-> 0] :
                    r \in {find_start_index(jobs, matrix, magazine_capacity, 0, {})} } : TRUE

\* calculate_makespan_for_machine: the body of phase 1 or phase 2 at position i
MkStep(st, i, job_id, matrix, magazine_capacity, tool_change_cost, job_costs) ==
    IF i < st.start_switch_index
    THEN [st EXCEPT !.elapsed_time = @ + job_costs[job_id]]
    ELSE CHOOSE n \in
            { [st EXCEPT !.magazine = r[1],
                         !.elapsed_time = @ + r[2] * tool_change_cost + job_costs[job_id]] :
                r \in {mk_load(st.magazine, matrix[job_id], magazine_capacity)} } : TRUE

\* the locals of calculate_flowtime_for_machine before phase 1
FtStart(jobs, matrix, magazine_capacity) ==
    CHOOSE n \in { [magazine |-> r[1], start_switch_index |-> r[2], elapsed_time |-> 0,
                    flowtime |-> 0] :
                    r \in {find_start_index(jobs, matrix, magazine_capacity, 0, {})} } : TRUE

\* calculate_flowtime_for_machine: the body of phase 1 or phase 2 at position i
FtStep(st, i, job_id, matrix, magazine_capacity, tool_change_cost, job_costs) ==
    IF i < st.start_switch_index
    THEN [st EXCEPT !.elapsed_time = @ + job_costs[job_id],
                    !.flowtime = @ + st.elapsed_time + job_costs[job_id]]
    ELSE CHOOSE n \in
            { [st EXCEPT !.magazine = r[1],
                         !.elapsed_time = @ + r[2] * tool_change_cost + job_costs[job_id],
                         !.flowtime = @ + st.elapsed_time + r[2] * tool_change_cost
                                        + job_costs[job_id]] :
                r \in {ft_load(st.magazine, matrix[job_id], magazine_capacity)} } : TRUE

\* Machine._calculate_metrics: the fields and locals after the pre-calculations
MachineStart(jobs, matrix, capacity, num_tools) ==
    CHOOSE n \in
        { [magazine |-> r[1],
           start_switch_index |-> IF r[2] = INT_INFINITY THEN Len(jobs) ELSE r[2],
           tools_distances |-> fill_tools_distances(jobs, matrix, num_tools),
           tool_switches |-> 0, elapsed_time |-> 0, flowtime |-> 0, makespan |-> 0] :
            r \in {initialize_magazine_and_find_start_index(jobs, matrix, capacity, 0, {})} } : TRUE

\* Machine._calculate_metrics: the body of phase 1 or phase 2 at position i
MachineStep(st, i, job_id, matrix, capacity, tool_change_cost, tasks_cost) ==
    IF i < st.start_switch_index
    THEN [st EXCEPT !.elapsed_time = @ + tasks_cost[job_id],
                    !.flowtime = @ + st.elapsed_time + tasks_cost[job_id]]
    ELSE CHOOSE n \in
            { [st EXCEPT !.magazine = r[1],
                         !.tool_switches = @ + r[2],
                         !.elapsed_time = @ + r[2] * tool_change_cost + tasks_cost[job_id],
                         !.flowtime = @ + st.elapsed_time + r[2] * tool_change_cost
                                        + tasks_cost[job_id]] :
                r \in {machine_load(st.magazine, matrix[job_id], capacity,
                                    st.tools_distances, i)} } : TRUE

\* the loop of calculate_tool_switches_for_machine from position i
RECURSIVE ts_loop(_, _, _, _, _)
ts_loop(st, jobs, i, matrix, magazine_capacity) ==
    IF i >= Len(jobs) THEN st
    ELSE ts_loop(TsStep(st, jobs[i + 1], matrix, magazine_capacity), jobs, i + 1, matrix,
                 magazine_capacity)

calculate_tool_switches_for_machine(jobs, matrix, magazine_capacity) ==
    IF Len(jobs) = 0 THEN 0
    ELSE ts_loop(TsStart, jobs, 0, matrix, magazine_capacity).switches

\* phases 1 and 2 of calculate_makespan_for_machine from position i
RECURSIVE mk_loop(_, _, _, _, _, _, _)
mk_loop(st, jobs, i, matrix, magazine_capacity, tool_change_cost, job_costs) ==
    IF i >= Len(jobs) THEN st
    ELSE mk_loop(MkStep(st, i, jobs[i + 1], matrix, magazine_capacity, tool_change_cost,
                        job_costs),
                 jobs, i + 1, matrix, magazine_capacity, tool_change_cost, job_costs)

calculate_makespan_for_machine(jobs, matrix, magazine_capacity, tool_change_cost, job_costs) ==
    IF Len(jobs) = 0 THEN 0
    ELSE mk_loop(MkStart(jobs, matrix, magazine_capacity), jobs, 0, matrix,
                 magazine_capacity, tool_change_cost, job_costs).elapsed_time

\* phases 1 and 2 of calculate_flowtime_for_machine from position i
RECURSIVE ft_loop(_, _, _, _, _, _, _)
ft_loop(st, jobs, i, matrix, magazine_capacity, tool_change_cost, job_costs) ==
    IF i >= Len(jobs) THEN st
    ELSE ft_loop(FtStep(st, i, jobs[i + 1], matrix, magazine_capacity, tool_change_cost,
                        job_costs),
                 jobs, i + 1, matrix, magazine_capacity, tool_change_cost, job_costs)

calculate_flowtime_for_machine(jobs, matrix, magazine_capacity, tool_change_cost, job_costs) ==
    IF Len(jobs) = 0 THEN 0
    ELSE ft_loop(FtStart(jobs, matrix, magazine_capacity), jobs, 0, matrix,
                 magazine_capacity, tool_change_cost, job_costs).flowtime

\* np.max of the function f over the finite non-empty set S
MaxOver(S, f) == CHOOSE x \in { f[s] : s \in S } : \A s \in S : f[s] <= x

\* Solution._calculate_objectives: the objectives of an assignment table
calculate_objectives(assignment, inst) ==
    LET machines == DOMAIN assignment
        Jobs(m) == LET IsJob(x) == x # -1 IN SelectSeq(assignment[m], IsJob)
        tool_switches == [ m \in machines |->
            calculate_tool_switches_for_machine(Jobs(m), inst.tools_requirements_matrix,
                                                inst.magazines_capacities[m]) ]
        makespans == [ m \in machines |->
            calculate_makespan_for_machine(Jobs(m), inst.tools_requirements_matrix,
                inst.magazines_capacities[m], inst.tool_change_costs[m],
                inst.job_cost_per_machine[m]) ]
        flowtimes == [ m \in machines |->
            calculate_flowtime_for_machine(Jobs(m), inst.tools_requirements_matrix,
                inst.magazines_capacities[m], inst.tool_change_costs[m],
                inst.job_cost_per_machine[m]) ]
    IN  [ tool_switches |-> SumOver(machines, tool_switches),
          makespan |-> MaxOver(machines, makespans),
          flowtime |-> SumOver(machines, flowtimes) ]

(***************************************************************************)
(* Assignments and the neighborhood generators of the Numba package.       *)
(* An assignment is a table: one row per machine, num_jobs slots per row,  *)
(* -1 in a slot that holds no job.  Positions are 0-based as in the code;  *)
(* slot p of a row is row[p + 1].                                          *)
(***************************************************************************)
\* the concatenation of a sequence of sequences
RECURSIVE Concat(_)
Concat(ss) == IF ss = <<>> THEN <<>> ELSE Head(ss) \o Concat(Tail(ss))

\* np.sum(row != -1)
Count(row) == Cardinality({ i \in 1..Len(row) : row[i] # -1 })

\* row[row != -1]
ValidJobs(row) == LET IsJob(x) == x # -1 IN SelectSeq(row, IsJob)

\* row[:] = -1 followed by row[:len(seq)] = seq
Refill(row, seq) == [ i \in 1..Len(row) |-> IF i <= Len(seq) THEN seq[i] ELSE -1 ]

\* arr[i] with numpy's wrap-around of a negative index
AtIndex(arr, i) == arr[IF i < 0 THEN i + Cardinality(DOMAIN arr) ELSE i]

\* the check when it lets every job pass
check_machine_eligibility_skipped(job_id, machine_id, magazines_capacities, tools_per_job) ==
    TRUE

check_machine_eligibility(job_id, machine_id, magazines_capacities, tools_per_job) ==
    AtIndex(tools_per_job, job_id) <= AtIndex(magazines_capacities, machine_id)

num_machines_of(assignment) == Cardinality(DOMAIN assignment)

\* generate_job_exchange_neighbors_numba: the neighbors in the order emitted
job_exchange(assignment, magazines_capacities, tools_per_job) ==
    LET M == num_machines_of(assignment)
        Pair(m1, m2) ==
            LET len_m1 == Count(assignment[m1])
                len_m2 == Count(assignment[m2])
                At(pos1, pos2) ==
                    LET job_id1 == assignment[m1][pos1 + 1]
                        job_id2 == assignment[m2][pos2 + 1]
                    IN  IF /\ check_machine_eligibility(job_id2, m1, magazines_capacities,
                                                        tools_per_job)
                           /\ check_machine_eligibility(job_id1, m2, magazines_capacities,
                                                        tools_per_job)
                        THEN << [assignment EXCEPT ![m1][pos1 + 1] = job_id2,
                                                       ![m2][pos2 + 1] = job_id1] >>
                        ELSE <<>>
            IN  Concat([ p1 \in 1..len_m1 |->
                    Concat([ p2 \in 1..len_m2 |-> At(p1 - 1, p2 - 1) ]) ])
    IN  Concat([ a \in 1..M |->
            Concat([ b \in 1..(M - a) |-> Pair(a - 1, a - 1 + b) ]) ])

\* generate_swap_neighbors_numba: the neighbors in the order emitted
swap(assignment) ==
    LET M == num_machines_of(assignment)
        OnMachine(machine_id) ==
            LET lem_m == Count(assignment[machine_id])
                row == assignment[machine_id]
            IN  IF lem_m < 2 THEN <<>>
                ELSE Concat([ a \in 1..lem_m |->
                        [ b \in 1..(lem_m - a) |->
                            [assignment EXCEPT ![machine_id][a] = row[a + b],
                                                   ![machine_id][a + b] = row[a]] ] ])
    IN  Concat([ a \in 1..M |-> OnMachine(a - 1) ])

\* generate_two_opt_neighbors_numba: the neighbors in the order emitted
two_opt(assignment) ==
    LET M == num_machines_of(assignment)
        OnMachine(machine_id) ==
            LET row == assignment[machine_id]
                len_m == Count(row)
                jobs_seq == SubSeq(row, 1, len_m)
                \* new_seq[i:j] = new_seq[i:j][::-1]
                Reversed(i, j) ==
                    [ q \in 1..len_m |->
                        IF q - 1 >= i /\ q - 1 < j THEN jobs_seq[i + j - q + 1]
                        ELSE jobs_seq[q] ]
            IN  IF len_m < 2 THEN <<>>
                ELSE Concat([ a \in 1..len_m |->
                        [ b \in 1..(len_m - a) |->
                            [assignment EXCEPT
                                ![machine_id] = Refill(row, Reversed(a - 1, a + b))] ] ])
    IN  Concat([ a \in 1..M |-> OnMachine(a - 1) ])

\* find_tool_blocks_numba: the start position of each maximal block of
\* consecutive jobs that need the tool, in order
find_tool_blocks_numba(jobs, tool_id, tools_requirements_matrix) ==
    LET Uses(q) == tool_id \in AtIndex(tools_requirements_matrix, jobs[q])
        IsStart(q) == Uses(q) /\ (q = 1 \/ ~Uses(q - 1))
        starts == { q \in 1..Len(jobs) : IsStart(q) }
    IN  [ b \in 1..Cardinality(starts) |->
            (CHOOSE q \in starts : Cardinality({ r \in starts : r < q }) = b - 1) - 1 ]

\* generate_one_block_neighbors_numba: the neighbors in the order emitted
one_block(assignment, tools_requirements_matrix, num_tools) ==
    LET M == num_machines_of(assignment)
        OnMachine(machine_id) ==
            LET row == assignment[machine_id]
                len_valid == Count(row)
                assigned_jobs == SubSeq(row, 1, len_valid)
                ForTool(tool_id) ==
                    LET blocks == find_tool_blocks_numba(ValidJobs(row), tool_id,
                                                         tools_requirements_matrix)
                        Move(remove_block_idx, insert_block_idx) ==
                            LET remove_start == blocks[remove_block_idx]
                                insert_start == blocks[insert_block_idx]
                                job_to_move == assigned_jobs[remove_start + 1]
                                new_sequence == RemoveAt(assigned_jobs, remove_start + 1)
                                shifted == IF remove_start > insert_start
                                           THEN insert_start ELSE insert_start - 1
                                capped == IF shifted < Len(new_sequence)
                                          THEN shifted ELSE Len(new_sequence)
                                actual_insert_pos == IF capped > 0 THEN capped ELSE 0
                            IN  IF remove_block_idx = insert_block_idx THEN <<>>
                                ELSE IF remove_start >= Len(assigned_jobs)
                                        \/ insert_start >= Len(assigned_jobs) THEN <<>>
                                ELSE << [assignment EXCEPT ![machine_id] =
                                            Refill(row,
                                                SubSeq(new_sequence, 1, actual_insert_pos)
                                                \o << job_to_move >>
                                                \o SubSeq(new_sequence, actual_insert_pos + 1,
                                                          Len(new_sequence)))] >>
                    IN  IF Len(blocks) < 2 THEN <<>>
                        ELSE Concat([ a \in 1..Len(blocks) |->
                                Concat([ b \in 1..Len(blocks) |-> Move(a, b) ]) ])
            IN  IF len_valid = 0 THEN <<>>
                ELSE Concat([ tl \in 1..num_tools |-> ForTool(tl - 1) ])
    IN  Concat([ a \in 1..M |-> OnMachine(a - 1) ])

\* generate_insertion_neighbors_numba: the neighbors in the order emitted
insertion(assignment, magazines_capacities, tools_per_job) ==
    LET M == num_machines_of(assignment)
        Insert(source_machine, pos_in_src, target_machine, insert_pos) ==
            LET job_to_move == assignment[source_machine][pos_in_src + 1]
                Stays(x) == x # job_to_move
                \* the job is taken out of the source row
                new_src_seq == SelectSeq(ValidJobs(assignment[source_machine]), Stays)
                removed == [assignment EXCEPT ![source_machine] = Refill(@, new_src_seq)]
                \* and put into the target row
                tgt_seq == ValidJobs(removed[target_machine])
                new_tgt_seq == SubSeq(tgt_seq, 1, insert_pos) \o << job_to_move >>
                                \o SubSeq(tgt_seq, insert_pos + 1, Len(tgt_seq))
            IN  IF source_machine = target_machine
                   /\ (insert_pos = pos_in_src \/ insert_pos = pos_in_src + 1)
                THEN <<>>
                ELSE << [removed EXCEPT ![target_machine] = Refill(@, new_tgt_seq)] >>
        ToTarget(source_machine, pos_in_src, target_machine) ==
            IF ~check_machine_eligibility(assignment[source_machine][pos_in_src + 1],
                                          target_machine, magazines_capacities, tools_per_job)
            THEN <<>>
            ELSE Concat([ ip \in 1..Count(assignment[target_machine]) |->
                            Insert(source_machine, pos_in_src, target_machine, ip - 1) ])
        FromSource(source_machine) ==
            Concat([ ps \in 1..Count(assignment[source_machine]) |->
                Concat([ tm \in 1..M |-> ToTarget(source_machine, ps - 1, tm - 1) ]) ])
    IN  Concat([ sm \in 1..M |-> FromSource(sm - 1) ])

\* one step of the loop of perturbation_insertion_numba on an instance with at
\* least two machines, for the machines and the job position drawn: the table
\* after the step
perturbation_move(neighbor, source_machine, target_machine, job_idx, magazines_capacities, tools_per_job) ==
    LET src == neighbor[source_machine]
        source_jobs == { q \in 1..Len(src) : src[q] # -1 }
        \* source_jobs[job_idx], 1-based
        job_pos == CHOOSE q \in source_jobs :
                        Cardinality({ r \in source_jobs : r < q }) = job_idx
        job_id == src[job_pos]
        free_pos == { q \in 1..Len(src) : neighbor[target_machine][q] = -1 }
        first_free == CHOOSE q \in free_pos : \A r \in free_pos : q <= r
        \* neighbor[source, job_pos:-1] = neighbor[source, job_pos+1:]; neighbor[source, -1] = -1
        shifted == [ q \in 1..Len(src) |->
                        IF q < job_pos THEN src[q]
                        ELSE IF q < Len(src) THEN src[q + 1] ELSE -1 ]
    IN  IF /\ check_machine_eligibility(job_id, target_machine, magazines_capacities,
                                        tools_per_job)
           /\ free_pos # {}
        THEN [ [neighbor EXCEPT ![source_machine] = shifted]
                    EXCEPT ![target_machine][first_free] = job_id ]
        ELSE neighbor

\* the outcomes of one step of the loop: [crashed, table].  With fewer than two
\* machines machine_indices[1] is read past the end of machine_indices; compiled
\* code does not check the index, so target_machine is whatever the memory
\* holds: a value that addresses the only row ("own"), or one that addresses
\* memory outside the table ("outside"), where the process may be killed, the
\* step may do nothing, or the job is taken out of its row and written outside
perturbation_step(neighbor, magazines_capacities, tools_per_job) ==
    LET M == num_machines_of(neighbor)
        Positions(m) == 0..(Count(neighbor[m]) - 1)
    IN  IF M >= 2
        THEN { [crashed |-> FALSE, table |-> neighbor] :
                    pr \in { q \in (0..(M - 1)) \X (0..(M - 1)) :
                                q[1] # q[2] /\ Count(neighbor[q[1]]) = 0 } }
             \cup
             { [crashed |-> FALSE,
                table |-> perturbation_move(neighbor, x[1], x[2], x[3],
                                            magazines_capacities, tools_per_job)] :
                    x \in { y \in (0..(M - 1)) \X (0..(M - 1)) \X (0..(Len(neighbor[0]) - 1)) :
                                y[1] # y[2] /\ y[3] \in Positions(y[1]) } }
        ELSE IF Count(neighbor[0]) = 0
        THEN { [crashed |-> FALSE, table |-> neighbor] }
        ELSE { [crashed |-> TRUE, table |-> neighbor],
               [crashed |-> FALSE, table |-> neighbor] }
             \cup
             { [crashed |-> FALSE,
                table |-> perturbation_move(neighbor, 0, 0, job_idx,
                                            magazines_capacities, tools_per_job)] :
                    job_idx \in Positions(0) }
             \cup
             { [crashed |-> FALSE,
                table |-> [neighbor EXCEPT ![0] =
                            [ q \in 1..Len(@) |->
                                IF q < job_pos THEN @[q]
                                ELSE IF q < Len(@) THEN @[q + 1] ELSE -1 ]]] :
                    job_pos \in { q \in 1..Len(neighbor[0]) : neighbor[0][q] # -1 } }

\* perturbation_insertion_numba: the outcomes of a call with the given strength
RECURSIVE perturbation_insertion_numba(_, _, _, _)
perturbation_insertion_numba(assignment, magazines_capacities, tools_per_job, strength) ==
    IF strength = 0 THEN { [crashed |-> FALSE, table |-> assignment] }
    ELSE UNION { IF o.crashed THEN {o}
                 ELSE perturbation_insertion_numba(o.table, magazines_capacities,
                                                   tools_per_job, strength - 1) :
                    o \in perturbation_step(assignment, magazines_capacities, tools_per_job) }

(***************************************************************************)
(* Variable neighborhood descent of the Numba package.                     *)
(***************************************************************************)
\* the acceptance test when it only looks at the first axis
accepts_on_first_axis(neighbor_objectives, current_objectives, x, y) ==
    neighbor_objectives[x] < current_objectives[x]

\* an acceptance test that asks for a strict improvement on both axes
accepts_strictly_better_on_both(neighbor_objectives, current_objectives, x, y) ==
    /\ neighbor_objectives[x] < current_objectives[x]
    /\ neighbor_objectives[y] < current_objectives[y]

\* an acceptance test that takes every neighbor whose objectives differ
accepts_any_difference(neighbor_objectives, current_objectives, x, y) ==
    neighbor_objectives # current_objectives

\* the acceptance test of the loop over the neighbors
accepts(neighbor_objectives, current_objectives, x, y) ==
    /\ neighbor_objectives # current_objectives
    /\ dominates_on_axes(neighbor_objectives, current_objectives, x, y)

\* the neighbors of neighborhoods[kk], in the order emitted
neighbors_of(kk, assignment, inst) ==
    CASE kk = 0 -> job_exchange(assignment, inst.magazines_capacities, inst.tools_per_job)
      [] kk = 1 -> swap(assignment)
      [] kk = 2 -> two_opt(assignment)
      [] kk = 3 -> one_block(assignment, inst.tools_requirements_matrix, inst.num_tools)
      [] kk = 4 -> insertion(assignment, inst.magazines_capacities, inst.tools_per_job)

\* the solution built for a neighbor
SolutionOf(assignment, inst) ==
    [ job_assignment |-> assignment, objectives |-> calculate_objectives(assignment, inst) ]

\* the for loop over the neighbors: << the neighbor solution that is accepted >>,
\* or << >> when the loop ends without one
first_improvement(kk, current, inst, x, y) ==
    CHOOSE r \in
        { LET hits == { i \in 1..Len(sols) :
                            accepts(sols[i].objectives, current.objectives, x, y) }
          IN  IF hits = {} THEN << >>
              ELSE << sols[CHOOSE i \in hits : \A j \in hits : i <= j] >> :
            sols \in { [ i \in 1..Len(nbs) |-> SolutionOf(nbs[i], inst) ] :
                        nbs \in { neighbors_of(kk, current.job_assignment, inst) } } } : TRUE

(***************************************************************************)
(* The constructive heuristic: construct_initial_solution of the Numba     *)
(* package and Instance.construct_initial_solution of the POO package.     *)
(* Both keep the jobs of a machine in a row of the table.                  *)
(***************************************************************************)
\* calculate_similarity_matrix: the entry [j1, j2], the tools both jobs need
\* plus the tools neither needs
similarity(matrix, num_tools, j1, j2) ==
    Cardinality(matrix[j1] \cap matrix[j2])
        + Cardinality((0..(num_tools - 1)) \ (matrix[j1] \cup matrix[j2]))

\* the orderings of a finite set
Orderings(S) ==
    { s \in [1..Cardinality(S) -> S] : \A a, b \in 1..Cardinality(S) : a # b => s[a] # s[b] }

\* np.where(arr == v)[0][0]
FirstIndex(arr, v) ==
    CHOOSE i \in 1..Len(arr) : arr[i] = v /\ \A j \in 1..(i - 1) : arr[j] # v

\* find_best_machine_min_tsj of the Numba package: the machines that hold jobs
\* by increasing ratio; np.argsort may order equal ratios either way
find_best_machine_min_tsj(assignment, matrix, magazines_capacities) ==
    LET with_jobs == { m \in DOMAIN assignment : Count(assignment[m]) > 0 }
        tool_switches == [ m \in with_jobs |->
            calculate_tool_switches_for_machine(ValidJobs(assignment[m]), matrix,
                                                magazines_capacities[m]) ]
        size == [ m \in with_jobs |-> Count(assignment[m]) ]
    IN  { ranked \in Orderings(with_jobs) :
            \A a, b \in 1..Len(ranked) :
                a < b => tool_switches[ranked[a]] * size[ranked[b]]
                            <= tool_switches[ranked[b]] * size[ranked[a]] }

\* the first job of available with the highest similarity to last_job_id
MostSimilar(available, last_job_id, matrix, num_tools) ==
    LET sim(i) == similarity(matrix, num_tools, last_job_id, available[i])
    IN  available[CHOOSE i \in 1..Len(available) :
                    /\ \A j \in 1..Len(available) : sim(j) <= sim(i)
                    /\ \A j \in 1..(i - 1) : sim(j) < sim(i)]

\* find_most_similar_job of both packages: << job >>, or << >> for None
find_most_similar_job(jobs, available, matrix, num_tools) ==
    IF Len(jobs) = 0 \/ Len(available) = 0 THEN << >>
    ELSE << MostSimilar(available, jobs[Len(jobs)], matrix, num_tools) >>

\* phase 1 of both packages for machine i: << job >> of the first job of the
\* list the machine is eligible for, or << >>
first_eligible(list, i, magazines_capacities, tools_per_job) ==
    LET hits == { j \in 1..Len(list) :
                    /\ list[j] # -1
                    /\ check_machine_eligibility(list[j], i, magazines_capacities,
                                                 tools_per_job) }
    IN  IF hits = {} THEN << >>
        ELSE << list[CHOOSE j \in hits : \A h \in hits : j <= h] >>

\* the for loop over ranked inside the Numba while loop:
\* << target_machine, job >> of the placement, or << >> when no job is placed
phase2_iteration(ranked, assignment, list, inst) ==
    LET job_of == [ i \in 1..Len(ranked) |->
            find_most_similar_job(ValidJobs(assignment[ranked[i]]), ValidJobs(list),
                                  inst.tools_requirements_matrix, inst.num_tools) ]
        stops == { i \in 1..Len(ranked) :
                    \/ job_of[i] = << >>
                    \/ check_machine_eligibility(job_of[i][1], ranked[i],
                                                 inst.magazines_capacities,
                                                 inst.tools_per_job) }
    IN  IF stops = {} THEN << >>
        ELSE LET i == CHOOSE s \in stops : \A u \in stops : s <= u
             IN  IF job_of[i] = << >> THEN << >> ELSE << ranked[i], job_of[i][1] >>

\* job_assignment[target_machine, pos] = job at the first free slot
put_at_first_free(assignment, target_machine, job) ==
    LET row == assignment[target_machine]
    IN  [assignment EXCEPT ![target_machine] = [row EXCEPT ![FirstIndex(row, -1)] = job]]

\* fill_start_magazine: << machine.magazine, returned index >>
RECURSIVE fill_start_magazine(_, _, _, _, _)
fill_start_magazine(jobs, matrix, capacity, i, magazine) ==
    IF i >= Len(jobs) THEN << magazine, INT_INFINITY >>
    ELSE LET temp_magazine == magazine \cup matrix[jobs[i + 1]]
         IN  IF Cardinality(temp_magazine) > capacity
             THEN << magazine, i >>
             ELSE fill_start_magazine(jobs, matrix, capacity, i + 1, temp_magazine)

\* one iteration of the loop of GPCA at position i:
\* << magazine after the job, num_switches >>
gpca_load(magazine, tools_for_current_job, capacity, tools_distances, i) ==
    LET empty_slots == capacity - Cardinality(tools_for_current_job)
        removal_candidates == magazine \ tools_for_current_job
        Before(u, t) ==
            \/ tools_distances[u][i] < tools_distances[t][i]
            \/ tools_distances[u][i] = tools_distances[t][i] /\ u < t
        tools_to_keep ==
            { t \in removal_candidates :
                Cardinality({ u \in removal_candidates : Before(u, t) }) < empty_slots }
        excess == Cardinality(removal_candidates) - empty_slots
    IN  << IF empty_slots > 0 THEN tools_for_current_job \cup tools_to_keep
           ELSE tools_for_current_job,
           IF excess > 0 THEN excess ELSE 0 >>

\* the loop of GPCA over one machine from position i: machine.tool_switches
RECURSIVE gpca_loop(_, _, _, _, _, _, _)
gpca_loop(magazine, switches, jobs, i, matrix, capacity, tools_distances) ==
    IF i >= Len(jobs) THEN switches
    ELSE LET r == gpca_load(magazine, matrix[jobs[i + 1]], capacity, tools_distances, i)
         IN  gpca_loop(r[1], switches + r[2], jobs, i + 1, matrix, capacity,
                       tools_distances)

\* GPCA: the tool_switches it leaves on one machine
GPCA(jobs, matrix, capacity, num_tools) ==
    IF Len(jobs) = 0 THEN 0
    ELSE LET r == fill_start_magazine(jobs, matrix, capacity, 0, {})
         IN  gpca_loop(r[1], 0, jobs, r[2], matrix, capacity,
                       fill_tools_distances(jobs, matrix, num_tools))

\* find_best_machine_min_tsj of functions/evaluation.py: the first machine with
\* the lowest ratio, a machine without jobs counting as ratio 0
poo_find_best_machine_min_tsj(assignment, inst) ==
    LET machines == DOMAIN assignment
        num == [ m \in machines |->
                    GPCA(ValidJobs(assignment[m]), inst.tools_requirements_matrix,
                         inst.magazines_capacities[m], inst.num_tools) ]
        den == [ m \in machines |->
                    IF Count(assignment[m]) > 0 THEN Count(assignment[m]) ELSE 1 ]
        Least(m) == \A o \in machines : num[m] * den[o] <= num[o] * den[m]
    IN  CHOOSE m \in machines : Least(m) /\ \A o \in machines : Least(o) => m <= o

\* Machine.add_job: the job is appended to the jobs of the machine
add_job(assignment, target_machine, job) ==
    [assignment EXCEPT ![target_machine] = Refill(@, ValidJobs(@) \o << job >>)]

\* list.remove(x): the list without the first occurrence of x
Remove(list, x) == RemoveAt(list, FirstIndex(list, x))

(***************************************************************************)
(* The archive as a state machine: a ParetoWall is constructed empty and   *)
(* receives add calls.                                                     *)
(***************************************************************************)
\* the idle values of the variables a specification does not drive
NoInstance == [num_jobs |-> 0]
EvalIdle ==
    /\ eval_pc = "idle"
    /\ objectives = <<>>
    /\ machine_jobs = <<>>
    /\ idx = 0
    /\ numba_ts = <<>>
    /\ numba_mk = <<>>
    /\ numba_ft = <<>>
    /\ machine = <<>>
MoveIdle ==
    /\ job_assignment = <<>>
    /\ last_move = "idle"
FrameIdle ==
    /\ heap = << >>
    /\ emitted = << >>
IlsIdle ==
    /\ ils_pc = "idle"
    /\ ils_i = 0
    /\ ils_iteration = 0
    /\ pareto_archive = << >>
ConIdle ==
    /\ con_pc = "idle"
    /\ con_impl = "none"
    /\ con_i = 0
    /\ jobs_list = <<>>
    /\ remaining_jobs = <<>>
VndIdle ==
    /\ vnd_pc = "idle"
    /\ initial_solution = <<>>
    /\ current_best_solution = <<>>
    /\ vnd_k = 0
    /\ vnd_obj_x = "none"
    /\ vnd_obj_y = "none"
ArchIdle ==
    /\ impl = "none"
    /\ max_size = 0
    /\ objectives_keys = <<>>
    /\ solutions = <<>>
    /\ ret = "none"
    /\ path = "none"

ArchInit ==
    /\ impl \in {"numba", "poo"}
    /\ max_size \in 1..MaxArchiveSize
    /\ objectives_keys \in KeyLists
    /\ impl = "numba" => objectives_keys # <<"makespan", "flowtime">>
    /\ impl = "poo" => objectives_keys = <<"makespan", "flowtime">>
    /\ solutions = <<>>
    /\ ret = "none"
    /\ path = "none"
    /\ instance_data = NoInstance
    /\ EvalIdle
    /\ MoveIdle
    /\ VndIdle
    /\ ConIdle
    /\ IlsIdle
    /\ FrameIdle

NumbaAdd ==
    /\ impl = "numba"
    /\ Len(solutions) <= MaxArchiveSize
    /\ \E s \in Objectives :
        \E r \in {add(solutions, objectives_keys, max_size, s)} :
            /\ solutions' = r[1]
            /\ ret' = r[2]
            /\ path' = r[3]
    /\ UNCHANGED <<impl, max_size, objectives_keys, archRest>>

PooAdd ==
    /\ impl = "poo"
    /\ Len(solutions) <= MaxArchiveSize
    /\ \E s \in Objectives :
        \E r \in {poo_add(solutions, objectives_keys, max_size, s)} :
            /\ solutions' = r[1]
            /\ ret' = r[2]
            /\ path' = r[3]
    /\ UNCHANGED <<impl, max_size, objectives_keys, archRest>>

ArchNext == NumbaAdd \/ PooAdd

SpecArchive == ArchInit /\ [][ArchNext]_vars

(***************************************************************************)
(* Properties of the archive, checked under SpecArchive.                   *)
(***************************************************************************)
\* the values of a solution on the configured keys
KeyVector(s) == [ k \in 1..Len(objectives_keys) |-> s[objectives_keys[k]] ]

\* C1: after any sequence of add calls no archive member dominates another
\* member on the configured keys
C1_NoMemberDominatesAnother ==
    \A i \in 1..Len(solutions) : \A j \in 1..Len(solutions) :
        ~dominates_on_objectives(solutions[i], solutions[j], objectives_keys)

\* an insertion that removed a dominated member left two members behind
C1_Witness ==
    /\ Len(solutions) = 2
    /\ path = "inserted"
    /\ max_size = 2
    /\ Len(objectives_keys) = 2
    /\ KeyVector(solutions[1]) # KeyVector(solutions[2])

\* C13: every add call returns True when it inserts the solution and the
\* boolean False when it rejects it as dominated or as a duplicate, and a
\* rejected add leaves the list of members as it was
C13_AddReturnsBoolean ==
    [][ IF path' \in {"dominated", "duplicate"}
        THEN ret' = "False" /\ solutions' = solutions
        ELSE ret' = "True" ]_vars

\* C2: after every add call the archive holds at most max_size members
C2_SizeWithinMaxSize == Len(solutions) <= max_size

\* C9 as claimed: no two archive members have the same values on the
\* configured keys
C9_NoEqualKeyVectors ==
    \A i \in 1..Len(solutions) : \A j \in 1..Len(solutions) :
        i # j => KeyVector(solutions[i]) # KeyVector(solutions[j])

\* C9 as amended: no two archive members have the same objectives dictionary
\* (tool_switches, makespan and flowtime all equal)
C9_NoEqualObjectives ==
    \A i \in 1..Len(solutions) : \A j \in 1..Len(solutions) :
        i # j => ~SolutionEq(solutions[i], solutions[j])

\* an add call was rejected as a duplicate of a member
C9_Witness == path = "duplicate" /\ ret = "False" /\ Len(solutions) >= 1

\* C16: dominance is antisymmetric for every pair of solutions and every key
\* set: A.dominates(B) and B.dominates(A) are never both true, likewise for
\* dominates_on_axes and dominates_on_objectives, and no solution dominates a
\* solution with an equal objective vector.  The pairs are those the archive
\* compares: a member and any solution offered to add
C16_DominanceAntisymmetric ==
    \A i \in 1..Len(solutions) : \A B \in Objectives :
        LET A == solutions[i]
        IN  /\ ~(dominates(A, B) /\ dominates(B, A))
            /\ SolutionEq(A, B) => ~dominates(A, B) /\ ~dominates(B, A)
            /\ \A keys \in KeyLists :
                /\ ~(dominates_on_objectives(A, B, keys) /\ dominates_on_objectives(B, A, keys))
                /\ KeyVector(A) = KeyVector(B) =>
                    /\ ~dominates_on_objectives(A, B, objectives_keys)
                    /\ ~dominates_on_objectives(B, A, objectives_keys)
            /\ \A x \in ObjectiveNames, y \in ObjectiveNames :
                /\ ~(dominates_on_axes(A, B, x, y) /\ dominates_on_axes(B, A, x, y))
                /\ (A[x] = B[x] /\ A[y] = B[y]) =>
                    ~dominates_on_axes(A, B, x, y) /\ ~dominates_on_axes(B, A, x, y)

\* the archive holds two members of which the first dominates the second on
\* the three objectives and the last solution offered was added
C16_Witness ==
    /\ Len(solutions) = 2
    /\ path = "inserted"
    /\ dominates(solutions[1], solutions[2])
    /\ ~dominates(solutions[2], solutions[1])

\* C21: when an insertion leaves the archive over max_size, the trimming pass
\* removes exactly one member: the member with the smallest aggregate crowding
\* distance (for each key with max # min the two extreme members count as
\* +infinity and each interior member adds (next - previous) / (max - min)),
\* ties broken in favour of the earliest member in archive order
C21_TrimRemovesSmallestDistance ==
    [][ path' = "trimmed" =>
        \E new_solution \in Objectives :
            LET NotDominated(s) == ~dominates_on_objectives(new_solution, s, objectives_keys)
                before == Append(SelectSeq(solutions, NotDominated), new_solution)
                distances == calculate_crowding_distances(before, objectives_keys)
                Smaller(i, j) == distances[i] # INF /\ (distances[j] = INF \/ distances[i] < distances[j])
                smallest == { i \in 1..Len(before) : \A j \in 1..Len(before) : ~Smaller(j, i) }
                remove_idx == CHOOSE i \in smallest : \A j \in smallest : i <= j
            IN  solutions' = RemoveAt(before, remove_idx) ]_vars

Tools == 0..(MaxTools - 1)

\* the tool sets a job can have on a machine of the given capacity
EligibleToolSets(capacity) ==
    { S \in SUBSET Tools : S # {} /\ Cardinality(S) <= capacity }

\* an instance with one machine: n jobs with the tool sets T, job j costs j + 1,
\* a tool switch costs 2
OneMachineInstance(n, capacity, T) ==
    [ num_jobs |-> n, num_machines |-> 1, num_tools |-> MaxTools,
      magazines_capacities |-> [ m \in {0} |-> capacity ],
      tool_change_costs |-> [ m \in {0} |-> 2 ],
      job_cost_per_machine |-> [ m \in {0} |-> [ j \in 0..(n - 1) |-> j + 1 ] ],
      tools_requirements_matrix |-> T,
      tools_per_job |-> [ j \in 0..(n - 1) |-> Cardinality(T[j]) ] ]

\* the instance of the worked scenario: 1 machine of capacity 2, switch cost 10,
\* J0 {0,1}, J1 {1,2}, J2 {0,1}, every job costs 5
ScenarioInstance ==
    [ num_jobs |-> 3, num_machines |-> 1, num_tools |-> 3,
      magazines_capacities |-> [ m \in {0} |-> 2 ],
      tool_change_costs |-> [ m \in {0} |-> 10 ],
      job_cost_per_machine |-> [ m \in {0} |-> [ j \in 0..2 |-> 5 ] ],
      tools_requirements_matrix |-> (0 :> {0, 1} @@ 1 :> {1, 2} @@ 2 :> {0, 1}),
      tools_per_job |-> [ j \in 0..2 |-> 2 ] ]

\* the sequences that hold each of the jobs 0..n-1 once
JobOrders(n) ==
    { s \in [1..n -> 0..(n - 1)] : \A i, j \in 1..n : i # j => s[i] # s[j] }

\* the inputs of the evaluation: every instance of up to MaxSeqJobs eligible
\* jobs with its jobs in index order, and the scenario in every order
EvalInit ==
    /\ ArchIdle
    /\ MoveIdle
    /\ VndIdle
    /\ ConIdle
    /\ IlsIdle
    /\ FrameIdle
    /\ \/ \E n \in 0..MaxSeqJobs, c \in 1..MaxTools :
            \E T \in [0..(n - 1) -> EligibleToolSets(c)] :
                /\ instance_data = OneMachineInstance(n, c, T)
                /\ machine_jobs = [ i \in 1..n |-> i - 1 ]
       \/ /\ instance_data = ScenarioInstance
          /\ machine_jobs \in JobOrders(3)
    /\ eval_pc = "new"
    /\ idx = 0
    /\ numba_ts = <<>>
    /\ numba_mk = <<>>
    /\ numba_ft = <<>>
    /\ machine = <<>>
    /\ objectives = <<>>

\* the functions are entered: an empty sequence returns at once, otherwise the
\* locals are set up and the pre-calculations are done
EvalBegin ==
    /\ eval_pc = "new"
    /\ LET matrix == instance_data.tools_requirements_matrix
           capacity == instance_data.magazines_capacities[0]
       IN  IF Len(machine_jobs) = 0
           THEN /\ eval_pc' = "done"
                /\ numba_ts' = TsStart
                /\ numba_mk' = [magazine |-> {}, start_switch_index |-> 0, elapsed_time |-> 0]
                /\ numba_ft' = [magazine |-> {}, start_switch_index |-> 0, elapsed_time |-> 0,
                                flowtime |-> 0]
                /\ machine' = [magazine |-> {}, start_switch_index |-> 0,
                               tools_distances |-> <<>>, tool_switches |-> 0,
                               elapsed_time |-> 0, flowtime |-> 0, makespan |-> 0]
                /\ objectives' = [tool_switches |-> 0, makespan |-> 0, flowtime |-> 0]
           ELSE /\ eval_pc' = "running"
                /\ numba_ts' = TsStart
                /\ numba_mk' = MkStart(machine_jobs, matrix, capacity)
                /\ numba_ft' = FtStart(machine_jobs, matrix, capacity)
                /\ machine' = MachineStart(machine_jobs, matrix, capacity,
                                           instance_data.num_tools)
                /\ UNCHANGED objectives
    /\ UNCHANGED <<evalRest, instance_data, machine_jobs, idx>>

\* every simulation processes the job at position idx
EvalStep ==
    /\ eval_pc = "running"
    /\ idx < Len(machine_jobs)
    /\ LET job_id == machine_jobs[idx + 1]
           matrix == instance_data.tools_requirements_matrix
           capacity == instance_data.magazines_capacities[0]
           cost == instance_data.tool_change_costs[0]
           job_costs == instance_data.job_cost_per_machine[0]
       IN  /\ numba_ts' = TsStep(numba_ts, job_id, matrix, capacity)
           /\ numba_mk' = MkStep(numba_mk, idx, job_id, matrix, capacity, cost, job_costs)
           /\ numba_ft' = FtStep(numba_ft, idx, job_id, matrix, capacity, cost, job_costs)
           /\ machine' = MachineStep(machine, idx, job_id, matrix, capacity, cost, job_costs)
    /\ idx' = idx + 1
    /\ UNCHANGED <<evalRest, instance_data, eval_pc, machine_jobs, objectives>>

\* the loops are over: the functions return and Solution sets its objectives
EvalEnd ==
    /\ eval_pc = "running"
    /\ idx = Len(machine_jobs)
    /\ eval_pc' = "done"
    /\ machine' = [machine EXCEPT !.makespan = machine.elapsed_time]
    /\ objectives' = [tool_switches |-> numba_ts.switches,
                      makespan |-> numba_mk.elapsed_time,
                      flowtime |-> numba_ft.flowtime]
    /\ UNCHANGED <<evalRest, instance_data, machine_jobs, idx, numba_ts, numba_mk, numba_ft>>

EvalNext == EvalBegin \/ EvalStep \/ EvalEnd

SpecEval == EvalInit /\ [][EvalNext]_vars

(***************************************************************************)
(* Properties of the evaluation, checked under SpecEval.                   *)
(***************************************************************************)
\* the magazines of the four simulations
Magazines ==
    { numba_ts.magazine, numba_mk.magazine, numba_ft.magazine, machine.magazine }

\* C3: for every capacity and every sequence of eligible jobs,
\* calculate_tool_switches_for_machine returns the switch count of the
\* distance-to-next-use simulation of Machine._calculate_metrics
C3_SwitchesEqualNextUsePolicy ==
    eval_pc = "done" => numba_ts.switches = machine.tool_switches

\* C4: when every job of the sequence is eligible on the machine, each simulated
\* magazine holds at most magazine_capacity tools after every step and
\* contains every tool of the job just processed
C4_MagazineWithinCapacity ==
    eval_pc \in {"running", "done"} =>
        \A magazine \in Magazines :
            /\ Cardinality(magazine) <= instance_data.magazines_capacities[0]
            /\ idx > 0 =>
                instance_data.tools_requirements_matrix[machine_jobs[idx]] \subseteq magazine

\* a job has just overflowed a full magazine: both policies evicted a tool and
\* kept an old one next to the tools of the job
C4_Witness ==
    /\ eval_pc = "running"
    /\ idx >= 2
    /\ numba_ts.switches > 0
    /\ machine.tool_switches > 0
    /\ \A magazine \in Magazines :
        /\ Cardinality(magazine) = instance_data.magazines_capacities[0]
        /\ magazine # instance_data.tools_requirements_matrix[machine_jobs[idx]]

\* C5: on the scenario instance the evaluator returns tool_switches = 2,
\* makespan = 35 and flowtime = 60 for [J0,J1,J2], and tool_switches = 1 for
\* [J0,J2,J1]
C5_ScenarioObjectives ==
    (instance_data = ScenarioInstance /\ eval_pc = "done") =>
        /\ machine_jobs = <<0, 1, 2>> =>
            objectives = [tool_switches |-> 2, makespan |-> 35, flowtime |-> 60]
        /\ machine_jobs = <<0, 2, 1>> => objectives.tool_switches = 1

\* the evaluation of [J0,J1,J2] on the scenario instance is done
C5_Witness ==
    /\ instance_data = ScenarioInstance
    /\ eval_pc = "done"
    /\ machine_jobs = <<0, 1, 2>>
    /\ objectives.makespan > 15

\* the tools required by the jobs of the sequence
ToolsUnion ==
    UNION { instance_data.tools_requirements_matrix[machine_jobs[i]] :
            i \in 1..Len(machine_jobs) }

\* the processing costs of the jobs of the sequence from position i on
RECURSIVE SumOfCosts(_)
SumOfCosts(i) ==
    IF i > Len(machine_jobs) THEN 0
    ELSE instance_data.job_cost_per_machine[0][machine_jobs[i]] + SumOfCosts(i + 1)

\* C15: for every machine sequence whose union of required tools has at most
\* magazine_capacity elements, the evaluator reports tool_switches = 0 for the
\* machine and its makespan is the plain sum of the processing costs
C15_NoSwitchesWhenAllToolsFit ==
    (eval_pc = "done" /\ Cardinality(ToolsUnion) <= instance_data.magazines_capacities[0]) =>
        /\ numba_ts.switches = 0
        /\ machine.tool_switches = 0
        /\ objectives.tool_switches = 0
        /\ numba_mk.elapsed_time = SumOfCosts(1)
        /\ machine.makespan = SumOfCosts(1)
        /\ objectives.makespan = SumOfCosts(1)

\* a sequence of three jobs with different tool sets that all fit the magazine
\* has been evaluated
C15_Witness ==
    /\ eval_pc = "done"
    /\ Len(machine_jobs) = 3
    /\ Cardinality(ToolsUnion) = instance_data.magazines_capacities[0]
    /\ \A i, j \in 1..3 :
        i # j => instance_data.tools_requirements_matrix[machine_jobs[i]]
                    # instance_data.tools_requirements_matrix[machine_jobs[j]]
    /\ objectives.makespan = SumOfCosts(1)

\* C29: the three Numba simulations of a machine sequence agree step by step:
\* after every job the time calculate_makespan_for_machine has accumulated is
\* the sum of the processing costs so far plus tool_change_cost times the
\* switches calculate_tool_switches_for_machine has counted, and the completion
\* time calculate_flowtime_for_machine has accumulated for the last job is that
\* time; at the end the makespan returned is the sum of the processing costs
\* plus tool_change_cost times the switches returned
C29_NumbaSimulationsAgree ==
    (eval_pc \in { "running", "done" } /\ Len(machine_jobs) > 0) =>
        /\ numba_mk.elapsed_time =
                (SumOfCosts(1) - SumOfCosts(idx + 1))
                    + instance_data.tool_change_costs[0] * numba_ts.switches
        /\ numba_ft.elapsed_time = numba_mk.elapsed_time
        /\ eval_pc = "done" =>
                objectives.makespan = SumOfCosts(1)
                    + instance_data.tool_change_costs[0] * objectives.tool_switches

\* a sequence has been evaluated whose first job goes through phase 1 of the
\* makespan and flowtime functions without filling the magazine and whose later
\* jobs cost two switches or more
C29_Witness ==
    /\ eval_pc = "done"
    /\ numba_mk.start_switch_index >= 1
    /\ numba_ft.start_switch_index >= 1
    /\ numba_ts.switches >= 2
    /\ Cardinality(instance_data.tools_requirements_matrix[machine_jobs[1]])
            < instance_data.magazines_capacities[0]

\* C19: at every evaluation step that counts switches, the number of switches
\* charged equals the number of tools evicted from the magazine and also equals
\* the number of tools loaded for the job that were not already in the
\* magazine, in calculate_tool_switches_for_machine and in
\* Machine._calculate_metrics
C19_SwitchesEqualEvictedAndLoaded ==
    [][EvalStep =>
        /\ numba_ts'.switches > numba_ts.switches =>
            /\ numba_ts'.switches - numba_ts.switches
                    = Cardinality(numba_ts.magazine \ numba_ts'.magazine)
            /\ numba_ts'.switches - numba_ts.switches
                    = Cardinality(numba_ts'.magazine \ numba_ts.magazine)
        /\ machine'.tool_switches > machine.tool_switches =>
            /\ machine'.tool_switches - machine.tool_switches
                    = Cardinality(machine.magazine \ machine'.magazine)
            /\ machine'.tool_switches - machine.tool_switches
                    = Cardinality(machine'.magazine \ machine.magazine)]_vars

\* C23: in the distance-based evaluator (Machine._calculate_metrics and GPCA),
\* at each step where the tools of the current job plus the magazine exceed the
\* capacity, the tools retained next to the tools of the job are exactly the
\* magazine tools with the smallest next-use position in the remaining
\* sequence (tools never needed again are evicted first), ties on the next
\* use broken by tool index (lower index retained)
C23_RetainsSoonestNeededTools ==
    [][ (EvalStep /\ idx >= machine.start_switch_index) =>
        LET job_tools == instance_data.tools_requirements_matrix[machine_jobs[idx + 1]]
            capacity == instance_data.magazines_capacities[0]
            candidates == machine.magazine \ job_tools
            Uses(t) == { q \in (idx + 1)..Len(machine_jobs) :
                            t \in instance_data.tools_requirements_matrix[machine_jobs[q]] }
            NextUse(t) == CHOOSE q \in Uses(t) : \A o \in Uses(t) : q <= o
            Sooner(t, u) ==
                \/ Uses(t) # {} /\ (Uses(u) = {} \/ NextUse(t) < NextUse(u))
                \/ /\ (Uses(t) = {} /\ Uses(u) = {})
                          \/ (Uses(t) # {} /\ Uses(u) # {} /\ NextUse(t) = NextUse(u))
                   /\ t < u
            Retains(kept) ==
                /\ kept \subseteq candidates
                /\ Cardinality(kept) = capacity - Cardinality(job_tools)
                /\ \A t \in kept : \A u \in candidates \ kept : Sooner(t, u)
        IN  Cardinality(machine.magazine \cup job_tools) > capacity =>
                /\ Retains(machine'.magazine \ job_tools)
                /\ Retains(gpca_load(machine.magazine, job_tools, capacity,
                                      machine.tools_distances, idx)[1] \ job_tools) ]_vars

\* an overflow step has evicted a tool of lower index than one it retained
\* because the retained tool is needed sooner: the magazine differs from the
\* one the lowest-index policy of the Numba simulation holds
C23_Witness ==
    /\ eval_pc = "running"
    /\ idx > machine.start_switch_index
    /\ machine.tool_switches > 0
    /\ \E t \in machine.magazine : \E u \in numba_ts.magazine :
        u < t /\ t \notin numba_ts.magazine /\ u \notin machine.magazine

(***************************************************************************)
(* The neighborhood moves as a state machine: from an assignment in which  *)
(* every job is placed once, on a machine it is eligible on, the search    *)
(* moves to a neighbor emitted by a generator or to an assignment returned *)
(* by the perturbation.                                                    *)
(***************************************************************************)
\* the tool sets of the jobs and the capacities of the machines of these instances
MoveToolSets == { {0}, {1}, {0, 1} }
MoveCapacities == { 1, 2 }
MachineCounts == { 1, 2 }

\* an instance with M machines: job j costs j + 1 + m on machine m, where a
\* tool switch costs m + 1
MoveInstance(n, M, capacities, T) ==
    [ num_jobs |-> n, num_machines |-> M, num_tools |-> 2,
      magazines_capacities |-> capacities,
      tool_change_costs |-> [ m \in 0..(M - 1) |-> m + 1 ],
      job_cost_per_machine |-> [ m \in 0..(M - 1) |-> [ j \in 0..(n - 1) |-> j + 1 + m ] ],
      tools_requirements_matrix |-> T,
      tools_per_job |-> [ j \in 0..(n - 1) |-> Cardinality(T[j]) ] ]

MoveInstances ==
    UNION { UNION { { MoveInstance(n, M, capacities, T) :
                        capacities \in [0..(M - 1) -> MoveCapacities],
                        T \in [0..(n - 1) -> MoveToolSets] } :
                    M \in MachineCounts } : n \in 1..MaxMoveJobs }

\* the instances with a single machine, which may hold more jobs
OneMachineMoveInstances ==
    UNION { { MoveInstance(n, 1, capacities, T) :
                capacities \in [{0} -> MoveCapacities],
                T \in [0..(n - 1) -> MoveToolSets] } : n \in 1..MaxOneMachineJobs }

\* the table that holds on each machine the jobs placed on it, in the given order
TableOf(n, M, order, place) ==
    [ m \in 0..(M - 1) |->
        LET OnM(j) == place[j] = m
        IN  Refill([ q \in 1..n |-> -1 ], SelectSeq(order, OnM)) ]

\* the tables a search can start from: every job once, on an eligible machine
ValidAssignments(inst) ==
    { TableOf(inst.num_jobs, inst.num_machines, order, place) :
        order \in JobOrders(inst.num_jobs),
        place \in { f \in [0..(inst.num_jobs - 1) -> 0..(inst.num_machines - 1)] :
                        \A j \in DOMAIN f :
                            inst.tools_per_job[j] <= inst.magazines_capacities[f[j]] } }

MovesInit ==
    /\ ArchIdle
    /\ EvalIdle
    /\ VndIdle
    /\ ConIdle
    /\ IlsIdle
    /\ FrameIdle
    /\ instance_data \in MoveInstances \cup OneMachineMoveInstances
    /\ job_assignment \in ValidAssignments(instance_data)
    /\ last_move = "start"

\* the search moves to one of the neighbors a generator emits
JobExchange ==
    /\ last_move # "crashed"
    /\ \E nb \in Range(job_exchange(job_assignment, instance_data.magazines_capacities,
                                    instance_data.tools_per_job)) :
        job_assignment' = nb
    /\ last_move' = "job_exchange"
    /\ UNCHANGED <<moveRest, instance_data>>

Swap ==
    /\ last_move # "crashed"
    /\ \E nb \in Range(swap(job_assignment)) : job_assignment' = nb
    /\ last_move' = "swap"
    /\ UNCHANGED <<moveRest, instance_data>>

TwoOpt ==
    /\ last_move # "crashed"
    /\ \E nb \in Range(two_opt(job_assignment)) : job_assignment' = nb
    /\ last_move' = "two_opt"
    /\ UNCHANGED <<moveRest, instance_data>>

OneBlock ==
    /\ last_move # "crashed"
    /\ \E nb \in Range(one_block(job_assignment, instance_data.tools_requirements_matrix,
                                 instance_data.num_tools)) :
        job_assignment' = nb
    /\ last_move' = "one_block"
    /\ UNCHANGED <<moveRest, instance_data>>

Insertion ==
    /\ last_move # "crashed"
    /\ \E nb \in Range(insertion(job_assignment, instance_data.magazines_capacities,
                                 instance_data.tools_per_job)) :
        job_assignment' = nb
    /\ last_move' = "insertion"
    /\ UNCHANGED <<moveRest, instance_data>>

\* a call of the perturbation: it returns a table or the process is killed
Perturbation ==
    /\ last_move # "crashed"
    /\ \E strength \in 1..MaxStrength :
        \E o \in perturbation_insertion_numba(job_assignment,
                    instance_data.magazines_capacities, instance_data.tools_per_job,
                    strength) :
            /\ job_assignment' = o.table
            /\ last_move' = IF o.crashed THEN "crashed" ELSE "perturbation"
    /\ UNCHANGED <<moveRest, instance_data>>

MovesNext == JobExchange \/ Swap \/ TwoOpt \/ OneBlock \/ Insertion \/ Perturbation

SpecMoves == MovesInit /\ [][MovesNext]_vars

(***************************************************************************)
(* Properties of the moves, checked under SpecMoves.                       *)
(***************************************************************************)
\* the slots of the table that hold job j
SlotsOf(j) ==
    { s \in (DOMAIN job_assignment) \X (1..instance_data.num_jobs) :
        job_assignment[s[1]][s[2]] = j }

\* Solution.get_assignment_dict of the Numba package: for each machine the list
\* np.where(job_assignment[machine_id] != -1)[0] in increasing order
get_assignment_dict(assignment) ==
    [ machine_id \in DOMAIN assignment |->
        LET assigned_jobs ==
                { q \in 0..(Len(assignment[machine_id]) - 1) :
                    assignment[machine_id][q + 1] # -1 }
        IN  [ i \in 1..Cardinality(assigned_jobs) |->
                CHOOSE q \in assigned_jobs :
                    Cardinality({ u \in assigned_jobs : u < q }) = i - 1 ] ]

\* C12: the exported assignment maps every machine to the job ids of its
\* sequence, in slot order
C12_AssignmentDictListsJobIds ==
    last_move # "crashed" =>
        \A m \in DOMAIN job_assignment :
            get_assignment_dict(job_assignment)[m] = ValidJobs(job_assignment[m])

\* C7: every assignment reached by neighborhood moves and perturbations holds
\* each job 0..num_jobs-1 exactly once
C7_EveryJobOnce ==
    \A j \in 0..(instance_data.num_jobs - 1) : Cardinality(SlotsOf(j)) = 1

\* C8: from an assignment in which every job is eligible on its machine, every
\* assignment emitted by a generator or returned by the perturbation keeps
\* every job eligible on the machine it is placed on
C8_EveryJobEligible ==
    \A m \in DOMAIN job_assignment : \A q \in 1..instance_data.num_jobs :
        job_assignment[m][q] # -1 =>
            instance_data.tools_per_job[job_assignment[m][q]]
                <= instance_data.magazines_capacities[m]

\* a move across machines was made on an instance where a job is not eligible
\* on every machine, and that job sits next to another one
C8_Witness ==
    /\ last_move \in {"job_exchange", "insertion", "perturbation"}
    /\ \E j \in 0..(instance_data.num_jobs - 1) : \E m, o \in DOMAIN job_assignment :
        /\ instance_data.tools_per_job[j] > instance_data.magazines_capacities[m]
        /\ Count(job_assignment[o]) >= 2
        /\ \E q \in 1..instance_data.num_jobs : job_assignment[o][q] = j

\* C25: on an instance with at least two machines, a step of the perturbation
\* picks two distinct machines and one job of the source machine; if the job
\* is eligible on the target it is removed and inserted at a position chosen
\* at random among all positions 0..len(target sequence), so every position of
\* the target sequence is a possible outcome; if the source is empty or the
\* job is ineligible the step leaves the assignment unchanged
C25_PerturbationInsertsAnywhere ==
    (last_move # "crashed" /\ instance_data.num_machines >= 2) =>
        LET outcomes == { o.table : o \in perturbation_insertion_numba(job_assignment,
                                instance_data.magazines_capacities,
                                instance_data.tools_per_job, 1) }
        IN  \A source_machine \in DOMAIN job_assignment, target_machine \in DOMAIN job_assignment :
                source_machine # target_machine =>
                    LET src == ValidJobs(job_assignment[source_machine])
                        tgt == ValidJobs(job_assignment[target_machine])
                        Moved(job_idx, insert_pos) ==
                            [job_assignment EXCEPT
                                ![source_machine] = Refill(@, RemoveAt(src, job_idx)),
                                ![target_machine] =
                                    Refill(@, SubSeq(tgt, 1, insert_pos) \o << src[job_idx] >>
                                                \o SubSeq(tgt, insert_pos + 1, Len(tgt)))]
                    IN  /\ src = << >> => job_assignment \in outcomes
                        /\ \A job_idx \in 1..Len(src) :
                            IF check_machine_eligibility(src[job_idx], target_machine,
                                                         instance_data.magazines_capacities,
                                                         instance_data.tools_per_job)
                            THEN \A insert_pos \in 0..Len(tgt) :
                                    Moved(job_idx, insert_pos) \in outcomes
                            ELSE job_assignment \in outcomes

\* C24: for each machine, each tool and each ordered pair of distinct maximal
\* blocks (A, B) of consecutive jobs requiring that tool, the one-block
\* generator emits the sequence obtained by removing the first job of A and
\* re-inserting it immediately before the job that was first in B, whether A
\* lies before or after B; all other jobs keep their relative order and the
\* other machines are unchanged
C24_OneBlockMovesBlockStart ==
    last_move # "crashed" =>
        \A machine_id \in DOMAIN job_assignment : \A tool_id \in 0..(instance_data.num_tools - 1) :
            LET seq == ValidJobs(job_assignment[machine_id])
                Uses(q) == tool_id \in instance_data.tools_requirements_matrix[seq[q]]
                starts == { q \in 1..Len(seq) : Uses(q) /\ (q = 1 \/ ~Uses(q - 1)) }
                Moved(A, B) ==
                    LET Others(x) == x # seq[A]
                        rest == SelectSeq(seq, Others)
                        at == CHOOSE q \in 1..Len(rest) : rest[q] = seq[B]
                    IN  SubSeq(rest, 1, at - 1) \o << seq[A] >> \o SubSeq(rest, at, Len(rest))
            IN  \A A \in starts, B \in starts :
                    A # B =>
                        [job_assignment EXCEPT ![machine_id] = Refill(@, Moved(A, B))]
                            \in Range(one_block(job_assignment,
                                                instance_data.tools_requirements_matrix,
                                                instance_data.num_tools))

\* C30: every table reached from a constructed solution through the moves and
\* the perturbation is left-packed: on each machine row the assigned jobs
\* occupy the first slots and every later slot holds -1
C30_TablesLeftPacked ==
    \A m \in DOMAIN job_assignment :
        \A q \in 1..(Len(job_assignment[m]) - 1) :
            job_assignment[m][q] = -1 => job_assignment[m][q + 1] = -1

\* C27: on an instance with fewer than two machines a call of the perturbation
\* relocates nothing: it returns a copy of the assignment unchanged, without
\* raising and without reading outside the machine table, so the iteration
\* goes on with the selected solution's assignment
C27_SingleMachinePerturbationIsNoOp ==
    [][ (Perturbation /\ num_machines_of(job_assignment) < 2) =>
            (last_move' = "perturbation" /\ job_assignment' = job_assignment) ]_vars

\* C20: the insertion neighborhood is complete: for every job, every target
\* machine on which it is eligible (an empty machine and the job's own machine
\* included) and every insertion position 0..L of the target sequence after
\* the job has been removed from its source (L the length of that sequence),
\* the resulting assignment is emitted, except the one identical to the source
C20_InsertionComplete ==
    last_move # "crashed" =>
        \A source_machine \in DOMAIN job_assignment, target_machine \in DOMAIN job_assignment :
            \A pos_in_src \in 1..Count(job_assignment[source_machine]) :
                LET job_to_move == job_assignment[source_machine][pos_in_src]
                    removed == [job_assignment EXCEPT ![source_machine] =
                                    Refill(@, RemoveAt(ValidJobs(@), pos_in_src))]
                    tgt_seq == ValidJobs(removed[target_machine])
                    Inserted(insert_pos) ==
                        [removed EXCEPT ![target_machine] =
                            Refill(@, SubSeq(tgt_seq, 1, insert_pos) \o << job_to_move >>
                                        \o SubSeq(tgt_seq, insert_pos + 1, Len(tgt_seq)))]
                IN  check_machine_eligibility(job_to_move, target_machine,
                                              instance_data.magazines_capacities,
                                              instance_data.tools_per_job) =>
                        \A insert_pos \in 0..Len(tgt_seq) :
                            \/ Inserted(insert_pos) = job_assignment
                            \/ Inserted(insert_pos) \in
                                    Range(insertion(job_assignment,
                                                    instance_data.magazines_capacities,
                                                    instance_data.tools_per_job))

(***************************************************************************)
(* Variable neighborhood descent as a state machine: one action per        *)
(* iteration of the while loop.                                            *)
(***************************************************************************)
\* the pairs of axes the descent is called with
AxisPairs ==
    { << "tool_switches", "makespan" >>, << "tool_switches", "flowtime" >>,
      << "makespan", "flowtime" >> }

VndInit ==
    /\ ArchIdle
    /\ EvalIdle
    /\ MoveIdle
    /\ ConIdle
    /\ IlsIdle
    /\ FrameIdle
    /\ instance_data \in MoveInstances
    /\ \E a \in ValidAssignments(instance_data) :
        /\ initial_solution = SolutionOf(a, instance_data)
        /\ current_best_solution = SolutionOf(a, instance_data)
    /\ \E axes \in AxisPairs :
        /\ vnd_obj_x = axes[1]
        /\ vnd_obj_y = axes[2]
    /\ vnd_k = 0
    /\ vnd_pc = "loop"

\* an iteration that finds an accepted neighbor: it becomes the current best
\* and the descent restarts from the first neighborhood
VndImprove ==
    /\ vnd_pc = "loop"
    /\ vnd_k < 5
    /\ \E r \in { first_improvement(vnd_k, current_best_solution, instance_data, vnd_obj_x, vnd_obj_y) } :
        /\ r # << >>
        /\ current_best_solution' = r[1]
    /\ vnd_k' = 0
    /\ UNCHANGED <<vndRest, instance_data, vnd_pc, initial_solution, vnd_obj_x, vnd_obj_y>>

\* an iteration that finds none: the next neighborhood is tried
VndNextNeighborhood ==
    /\ vnd_pc = "loop"
    /\ vnd_k < 5
    /\ first_improvement(vnd_k, current_best_solution, instance_data, vnd_obj_x, vnd_obj_y) = << >>
    /\ vnd_k' = vnd_k + 1
    /\ UNCHANGED <<vndRest, instance_data, vnd_pc, initial_solution, current_best_solution,
                   vnd_obj_x, vnd_obj_y>>

\* the while loop ends: current_best_solution is returned
VndReturn ==
    /\ vnd_pc = "loop"
    /\ vnd_k = 5
    /\ vnd_pc' = "done"
    /\ UNCHANGED <<vndRest, instance_data, initial_solution, current_best_solution, vnd_k,
                   vnd_obj_x, vnd_obj_y>>

VndNext == VndImprove \/ VndNextNeighborhood \/ VndReturn

SpecVND == VndInit /\ [][VndNext]_vars

\* the instances of the fair descent: those of up to MaxFairJobs jobs
VndFairInstances == { inst \in MoveInstances : inst.num_jobs <= MaxFairJobs }

\* before the call of variable_neighborhood_descent
VndCallInit ==
    /\ ArchIdle
    /\ EvalIdle
    /\ MoveIdle
    /\ ConIdle
    /\ IlsIdle
    /\ FrameIdle
    /\ VndIdle
    /\ instance_data = NoInstance

\* the call: the function receives an initial solution and the two axes and
\* sets current_best_solution and k before its while loop
VndCall ==
    /\ vnd_pc = "idle"
    /\ instance_data' \in VndFairInstances
    /\ \E a \in ValidAssignments(instance_data') :
        /\ initial_solution' = SolutionOf(a, instance_data')
        /\ current_best_solution' = SolutionOf(a, instance_data')
    /\ \E axes \in AxisPairs :
        /\ vnd_obj_x' = axes[1]
        /\ vnd_obj_y' = axes[2]
    /\ vnd_k' = 0
    /\ vnd_pc' = "loop"
    /\ UNCHANGED vndRest

VndFairNext == VndCall \/ VndImprove \/ VndNextNeighborhood \/ VndReturn

\* the descent is a sequential loop: whenever the call, an iteration or the
\* return can be executed, it is
SpecVNDFair == VndCallInit /\ [][VndFairNext]_vars /\ WF_vars(VndFairNext)

(***************************************************************************)
(* Properties of the descent, checked under SpecVND.                       *)
(***************************************************************************)
\* C6: the solution the descent returns is the initial solution or dominates
\* it on the two axes; the initial solution never dominates it
C6_ResultInitialOrDominates ==
    vnd_pc = "done" =>
        /\ \/ current_best_solution = initial_solution
           \/ dominates_on_axes(current_best_solution.objectives,
                                initial_solution.objectives, vnd_obj_x, vnd_obj_y)
        /\ ~dominates_on_axes(initial_solution.objectives,
                              current_best_solution.objectives, vnd_obj_x, vnd_obj_y)

\* a descent that improved its solution has returned
C6_Witness ==
    /\ vnd_pc = "done"
    /\ current_best_solution # initial_solution
    /\ current_best_solution.objectives[vnd_obj_x] < initial_solution.objectives[vnd_obj_x]

\* C17: variable neighborhood descent terminates for every initial solution:
\* the neighborhood index k eventually reaches the end of the five-generator
\* list and the function returns
C17_VndTerminates == <>(vnd_pc = "done" /\ vnd_k = 5)

\* the descent has returned after at least one acceptance reset k to 0: the
\* result improves the initial solution on the second axis
C17_Witness ==
    /\ vnd_pc = "done"
    /\ vnd_k = 5
    /\ current_best_solution.job_assignment # initial_solution.job_assignment
    /\ current_best_solution.objectives[vnd_obj_y] < initial_solution.objectives[vnd_obj_y]

\* the objectives of the assignments that neighborhoods[kk] emits from the
\* current best solution
NeighborObjectives(kk) ==
    UNION { { SolutionOf(nbs[i], instance_data).objectives : i \in 1..Len(nbs) } :
            nbs \in { neighbors_of(kk, current_best_solution.job_assignment, instance_data) } }

\* C18: when the descent returns a solution S, S is a local optimum of all five
\* neighborhoods at once: no assignment emitted by job exchange, swap, 2-opt,
\* one-block or insertion from S has objectives that dominate S on (obj_x, obj_y)
C18_ResultIsLocalOptimum ==
    vnd_pc = "done" =>
        \A kk \in 0..4 : \A o \in NeighborObjectives(kk) :
            ~dominates_on_axes(o, current_best_solution.objectives, vnd_obj_x, vnd_obj_y)

\* the descent has returned a solution that it reached by an acceptance and
\* that has a neighbor which is better on one axis and worse on the other
C18_Witness ==
    /\ vnd_pc = "done"
    /\ current_best_solution # initial_solution
    /\ \E kk \in 0..4 : \E o \in NeighborObjectives(kk) :
        /\ o[vnd_obj_x] < current_best_solution.objectives[vnd_obj_x]
        /\ o[vnd_obj_y] > current_best_solution.objectives[vnd_obj_y]

(***************************************************************************)
(* The constructive heuristic as a state machine: one action per machine   *)
(* of phase 1 and one per iteration of the while loop of phase 2.          *)
(***************************************************************************)
ConInit ==
    /\ ArchIdle
    /\ EvalIdle
    /\ VndIdle
    /\ IlsIdle
    /\ FrameIdle
    /\ last_move = "idle"
    /\ instance_data \in MoveInstances
    /\ con_impl \in { "numba", "poo" }
    /\ jobs_list \in JobOrders(instance_data.num_jobs)
    /\ job_assignment = [ m \in 0..(instance_data.num_machines - 1) |->
                            [ q \in 1..instance_data.num_jobs |-> -1 ] ]
    /\ remaining_jobs = << >>
    /\ con_i = 0
    /\ con_pc = "phase1"

\* where the construction is after machine con_i has been served
AfterPhase1 == IF con_i + 1 = instance_data.num_machines THEN "phase2" ELSE "phase1"

\* phase 1 of the Numba package for machine con_i; after the last machine
\* remaining_jobs is built from jobs_list
NumbaPhase1 ==
    /\ con_impl = "numba"
    /\ con_pc = "phase1"
    /\ \E r \in { first_eligible(jobs_list, con_i, instance_data.magazines_capacities,
                                 instance_data.tools_per_job) } :
        \E list \in { IF r = << >> THEN jobs_list
                      ELSE [jobs_list EXCEPT ![FirstIndex(jobs_list, r[1])] = -1] } :
            /\ job_assignment' =
                    IF r = << >> THEN job_assignment
                    ELSE [job_assignment EXCEPT ![con_i][1] = r[1]]
            /\ jobs_list' = list
            /\ remaining_jobs' = IF AfterPhase1 = "phase2" THEN ValidJobs(list) ELSE << >>
    /\ con_i' = con_i + 1
    /\ con_pc' = AfterPhase1
    /\ UNCHANGED <<conRest, instance_data, con_impl>>

\* an iteration of the Numba while loop that places a job
NumbaPlace ==
    /\ con_impl = "numba"
    /\ con_pc = "phase2"
    /\ remaining_jobs # << >>
    /\ \E ranked \in find_best_machine_min_tsj(job_assignment,
                        instance_data.tools_requirements_matrix,
                        instance_data.magazines_capacities) :
        \E r \in { phase2_iteration(ranked, job_assignment, jobs_list, instance_data) } :
            /\ r # << >>
            /\ job_assignment' = put_at_first_free(job_assignment, r[1], r[2])
            /\ jobs_list' = [jobs_list EXCEPT ![FirstIndex(jobs_list, r[2])] = -1]
            /\ remaining_jobs' = Remove(remaining_jobs, r[2])
    /\ UNCHANGED <<conRest, instance_data, con_impl, con_i, con_pc>>

\* an iteration of the Numba while loop that places no job: nothing has
\* changed, so every later iteration with the same ranking does the same
NumbaStuck ==
    /\ con_impl = "numba"
    /\ con_pc = "phase2"
    /\ remaining_jobs # << >>
    /\ \E ranked \in find_best_machine_min_tsj(job_assignment,
                        instance_data.tools_requirements_matrix,
                        instance_data.magazines_capacities) :
        phase2_iteration(ranked, job_assignment, jobs_list, instance_data) = << >>
    /\ con_pc' = "diverged"
    /\ UNCHANGED <<conRest, instance_data, con_impl, con_i, job_assignment, jobs_list,
                   remaining_jobs>>

\* the Numba while loop ends: job_assignment is returned
NumbaReturn ==
    /\ con_impl = "numba"
    /\ con_pc = "phase2"
    /\ remaining_jobs = << >>
    /\ con_pc' = "returned"
    /\ UNCHANGED <<conRest, instance_data, con_impl, con_i, job_assignment, jobs_list,
                   remaining_jobs>>

\* phase 1 of the POO package for machine con_i
PooPhase1 ==
    /\ con_impl = "poo"
    /\ con_pc = "phase1"
    /\ \E r \in { first_eligible(jobs_list, con_i, instance_data.magazines_capacities,
                                 instance_data.tools_per_job) } :
        /\ job_assignment' =
                IF r = << >> THEN job_assignment
                ELSE add_job(job_assignment, con_i, r[1])
        /\ jobs_list' = IF r = << >> THEN jobs_list ELSE Remove(jobs_list, r[1])
    /\ con_i' = con_i + 1
    /\ con_pc' = AfterPhase1
    /\ UNCHANGED <<conRest, instance_data, con_impl, remaining_jobs>>

\* an iteration of the POO while loop that adds a job to the target machine
PooPlace ==
    /\ con_impl = "poo"
    /\ con_pc = "phase2"
    /\ jobs_list # << >>
    /\ \E target_machine \in { poo_find_best_machine_min_tsj(job_assignment, instance_data) } :
        \E r \in { find_most_similar_job(ValidJobs(job_assignment[target_machine]),
                                         jobs_list,
                                         instance_data.tools_requirements_matrix,
                                         instance_data.num_tools) } :
            /\ r # << >>
            /\ job_assignment' = add_job(job_assignment, target_machine, r[1])
            /\ jobs_list' = Remove(jobs_list, r[1])
    /\ UNCHANGED <<conRest, instance_data, con_impl, con_i, con_pc, remaining_jobs>>

\* an iteration of the POO while loop whose target machine holds no job:
\* the warning is printed, the loop is left and the method returns
PooWarn ==
    /\ con_impl = "poo"
    /\ con_pc = "phase2"
    /\ jobs_list # << >>
    /\ \E target_machine \in { poo_find_best_machine_min_tsj(job_assignment, instance_data) } :
        find_most_similar_job(ValidJobs(job_assignment[target_machine]), jobs_list,
                              instance_data.tools_requirements_matrix,
                              instance_data.num_tools) = << >>
    /\ con_pc' = "returned"
    /\ UNCHANGED <<conRest, instance_data, con_impl, con_i, job_assignment, jobs_list,
                   remaining_jobs>>

\* the POO while loop ends: the method returns
PooReturn ==
    /\ con_impl = "poo"
    /\ con_pc = "phase2"
    /\ jobs_list = << >>
    /\ con_pc' = "returned"
    /\ UNCHANGED <<conRest, instance_data, con_impl, con_i, job_assignment, jobs_list,
                   remaining_jobs>>

ConNext ==
    \/ NumbaPhase1
    \/ NumbaPlace
    \/ NumbaStuck
    \/ NumbaReturn
    \/ PooPhase1
    \/ PooPlace
    \/ PooWarn
    \/ PooReturn

SpecConstruct == ConInit /\ [][ConNext]_vars

(***************************************************************************)
(* Properties of the constructive heuristic, checked under SpecConstruct.  *)
(***************************************************************************)
\* some job needs more tools than the magazine of every machine holds
Infeasible(inst) ==
    \E j \in DOMAIN inst.tools_per_job :
        \A m \in DOMAIN inst.magazines_capacities :
            ~check_machine_eligibility(j, m, inst.magazines_capacities, inst.tools_per_job)

\* C10: on an instance with a job that is eligible on no machine, a
\* construction that has left its loops, or can no longer leave them, has
\* reported InfeasibleInstance to its caller
C10_InfeasibleInstanceReported ==
    (Infeasible(instance_data) /\ con_pc \notin { "idle", "phase1", "phase2" })
        => con_pc = "InfeasibleInstance"

\* C22: for every instance in which each job is eligible on at least one
\* machine, the constructive heuristic terminates and returns an assignment in
\* which every job is placed exactly once and only on a machine on which it
\* is eligible
C22_ConstructionPlacesEveryJob ==
    (~Infeasible(instance_data) /\ con_pc \notin { "idle", "phase1", "phase2" }) =>
        /\ con_pc = "returned"
        /\ \A j \in 0..(instance_data.num_jobs - 1) : Cardinality(SlotsOf(j)) = 1
        /\ \A m \in DOMAIN job_assignment : \A q \in 1..instance_data.num_jobs :
            job_assignment[m][q] # -1 =>
                check_machine_eligibility(job_assignment[m][q], m,
                                          instance_data.magazines_capacities,
                                          instance_data.tools_per_job)

(***************************************************************************)
(* Iterated local search of the Numba package as a state machine.  The     *)
(* calls of the constructive heuristic and of the descent are the steps of *)
(* those components; the perturbation, the evaluations and the archive     *)
(* updates are part of the ILS actions.                                    *)
(***************************************************************************)
\* the defaults of archive_size and perturbation_strength
archive_size == 10
perturbation_strength == 2

\* the objectives_keys the ILS builds its ParetoWall with
ils_objectives_keys == << "tool_switches", "makespan" >>

\* pareto_archive.add on members that carry their assignment: no two members
\* have equal objectives, so every record of the list add returns names its member
ils_add(archive, new_solution) ==
    LET r == add([ i \in 1..Len(archive) |-> archive[i].objectives ],
                 ils_objectives_keys, archive_size, new_solution.objectives)
        MemberOf(o) ==
            IF \E i \in 1..Len(archive) : archive[i].objectives = o
            THEN archive[CHOOSE i \in 1..Len(archive) : archive[i].objectives = o]
            ELSE new_solution
    IN  [ i \in 1..Len(r[1]) |-> MemberOf(r[1][i]) ]

\* the instances the ILS is run on: two machines
IlsInstances ==
    { inst \in MoveInstances : inst.num_machines = 2 /\ inst.num_jobs <= MaxIlsJobs }

\* np.full((num_machines, num_jobs), -1)
EmptyTable(inst) ==
    [ m \in 0..(inst.num_machines - 1) |-> [ q \in 1..inst.num_jobs |-> -1 ] ]

IlsInit ==
    /\ ArchIdle
    /\ EvalIdle
    /\ FrameIdle
    /\ last_move = "idle"
    /\ instance_data \in IlsInstances
    /\ \E axes \in AxisPairs :
        /\ vnd_obj_x = axes[1]
        /\ vnd_obj_y = axes[2]
    /\ vnd_pc = "idle"
    /\ initial_solution = << >>
    /\ current_best_solution = << >>
    /\ vnd_k = 0
    /\ pareto_archive = << >>
    /\ ils_pc = "seed"
    /\ ils_i = 0
    /\ ils_iteration = 0
    /\ con_impl = "numba"
    /\ con_pc = "phase1"
    /\ con_i = 0
    /\ jobs_list \in JobOrders(instance_data.num_jobs)
    /\ remaining_jobs = << >>
    /\ job_assignment = EmptyTable(instance_data)

\* the body of the loop over the initial population once the constructive
\* heuristic has returned: the solution is evaluated and offered to the archive;
\* then the next construction starts or the main loop is entered
IlsSeed ==
    /\ ils_pc = "seed"
    /\ con_pc = "returned"
    /\ pareto_archive' = ils_add(pareto_archive, SolutionOf(job_assignment, instance_data))
    /\ ils_i' = ils_i + 1
    /\ job_assignment' = EmptyTable(instance_data)
    /\ con_i' = 0
    /\ remaining_jobs' = << >>
    /\ IF ils_i + 1 < InitialPopSize
       THEN /\ jobs_list' \in JobOrders(instance_data.num_jobs)
            /\ con_pc' = "phase1"
            /\ ils_pc' = "seed"
       ELSE /\ jobs_list' = << >>
            /\ con_pc' = "idle"
            /\ ils_pc' = "iterate"
    /\ UNCHANGED <<ilsRest, instance_data, vndVars, con_impl, ils_iteration>>

\* an iteration of the main loop up to the call of the descent: a member is
\* drawn, perturbed and evaluated
IlsPerturb ==
    /\ ils_pc = "iterate"
    /\ ils_iteration < MaxIterations
    /\ pareto_archive # << >>
    /\ \E solution_to_improve \in Range(pareto_archive) :
        \E o \in perturbation_insertion_numba(solution_to_improve.job_assignment,
                    instance_data.magazines_capacities, instance_data.tools_per_job,
                    perturbation_strength) :
            IF o.crashed
            THEN /\ ils_pc' = "crashed"
                 /\ UNCHANGED <<vnd_pc, initial_solution, current_best_solution, vnd_k>>
            ELSE /\ ils_pc' = "vnd"
                 /\ vnd_pc' = "loop"
                 /\ initial_solution' = SolutionOf(o.table, instance_data)
                 /\ current_best_solution' = SolutionOf(o.table, instance_data)
                 /\ vnd_k' = 0
    /\ UNCHANGED <<ilsRest, instance_data, job_assignment, conVars, vnd_obj_x, vnd_obj_y,
                   ils_i, ils_iteration, pareto_archive>>

\* the rest of the iteration once the descent has returned: its result is
\* offered to the archive
IlsUpdate ==
    /\ ils_pc = "vnd"
    /\ vnd_pc = "done"
    /\ pareto_archive' = ils_add(pareto_archive, current_best_solution)
    /\ ils_iteration' = ils_iteration + 1
    /\ ils_pc' = "iterate"
    /\ vnd_pc' = "idle"
    /\ UNCHANGED <<ilsRest, instance_data, job_assignment, conVars, initial_solution,
                   current_best_solution, vnd_k, vnd_obj_x, vnd_obj_y, ils_i>>

\* the main loop ends: pareto_archive is returned
IlsReturn ==
    /\ ils_pc = "iterate"
    /\ ils_iteration = MaxIterations \/ pareto_archive = << >>
    /\ ils_pc' = "returned"
    /\ UNCHANGED <<ilsRest, instance_data, job_assignment, conVars, vndVars, ils_i,
                   ils_iteration, pareto_archive>>

IlsNext ==
    \/ NumbaPhase1
    \/ NumbaPlace
    \/ NumbaStuck
    \/ NumbaReturn
    \/ IlsSeed
    \/ IlsPerturb
    \/ VndImprove
    \/ VndNextNeighborhood
    \/ VndReturn
    \/ IlsUpdate
    \/ IlsReturn

SpecILS == IlsInit /\ [][IlsNext]_vars

(***************************************************************************)
(* Properties of the ILS, checked under SpecILS.                           *)
(***************************************************************************)
\* C11: the archive the ILS returns is pairwise non-dominated on the axis
\* pair (obj_x, obj_y) it was run with
C11_ArchiveNonDominatedOnAxes ==
    ils_pc = "returned" =>
        \A i, j \in 1..Len(pareto_archive) :
            ~dominates_on_axes(pareto_archive[i].objectives, pareto_archive[j].objectives,
                               vnd_obj_x, vnd_obj_y)

(***************************************************************************)
(* The arrays behind a generator call.  Every array is an object of the    *)
(* heap; the assignment the caller passes is object 1 and every            *)
(* job_assignment.copy() allocates a new object, which the generator then  *)
(* fills with the neighbor.                                                *)
(***************************************************************************)
\* ndarray.copy() when it hands back the array itself
ndarray_copy_as_view(h, ref) == << h, ref >>

\* ndarray.copy(): << heap with the new object, the new object >>
ndarray_copy(h, ref) == << Append(h, h[ref]), Len(h) + 1 >>

\* the loop of a generator over its neighbors: each is a copy of the source
\* that receives the writes of the move; << heap, neighbors >>
RECURSIVE emit_neighbors(_, _, _)
emit_neighbors(h, src, contents) ==
    IF contents = << >> THEN << h, << >> >>
    ELSE LET c == ndarray_copy(h, src)
             rest == emit_neighbors([c[1] EXCEPT ![c[2]] = Head(contents)], src,
                                    Tail(contents))
         IN  << rest[1], << c[2] >> \o rest[2] >>

FrameInit ==
    /\ ArchIdle
    /\ EvalIdle
    /\ VndIdle
    /\ ConIdle
    /\ IlsIdle
    /\ instance_data \in MoveInstances
    /\ job_assignment \in ValidAssignments(instance_data)
    /\ last_move = "start"
    /\ heap = << job_assignment >>
    /\ emitted = << >>

\* a call of one of the five generators on the source
FrameGenerate ==
    /\ last_move = "start"
    /\ \E kk \in 0..4 :
        \E r \in { emit_neighbors(heap, 1, neighbors_of(kk, heap[1], instance_data)) } :
            /\ heap' = r[1]
            /\ emitted' = r[2]
    /\ last_move' = "generated"
    /\ UNCHANGED <<frameRest, instance_data, job_assignment>>

\* a call of the perturbation on the source
FramePerturb ==
    /\ last_move = "start"
    /\ \E strength \in 1..MaxStrength :
        \E o \in perturbation_insertion_numba(heap[1], instance_data.magazines_capacities,
                                              instance_data.tools_per_job, strength) :
            \E c \in { ndarray_copy(heap, 1) } :
                IF o.crashed
                THEN /\ last_move' = "crashed"
                     /\ heap' = c[1]
                     /\ emitted' = << >>
                ELSE /\ last_move' = "perturbation"
                     /\ heap' = [c[1] EXCEPT ![c[2]] = o.table]
                     /\ emitted' = << c[2] >>
    /\ UNCHANGED <<frameRest, instance_data, job_assignment>>

\* the caller empties the first slot of one of the arrays it was handed
FrameModify ==
    /\ last_move \in { "generated", "perturbation" }
    /\ \E i \in 1..Len(emitted) :
        heap' = [heap EXCEPT ![emitted[i]][0][1] = -1]
    /\ last_move' = "modified"
    /\ UNCHANGED <<frameRest, instance_data, job_assignment, emitted>>

FrameNext == FrameGenerate \/ FramePerturb \/ FrameModify

SpecFrame == FrameInit /\ [][FrameNext]_vars

(***************************************************************************)
(* Properties of the arrays, checked under SpecFrame.                      *)
(***************************************************************************)
\* C14: after a generator or the perturbation has returned, and after the
\* caller has changed one of the arrays returned, the source array holds what
\* it held before the call, and the arrays returned are objects of their own:
\* none is the source and no two are the same object
C14_SourceNeverModified ==
    last_move \in { "generated", "perturbation", "modified" } =>
        /\ heap[1] = job_assignment
        /\ \A i \in 1..Len(emitted) : emitted[i] # 1
        /\ \A i, j \in 1..Len(emitted) : i # j => emitted[i] # emitted[j]

\* the caller has changed one of several neighbors
C14_Witness ==
    /\ last_move = "modified"
    /\ Len(emitted) >= 2
    /\ heap[emitted[1]] # heap[emitted[2]]
    /\ \E i \in 1..Len(emitted) : heap[emitted[i]][0][1] = -1 /\ job_assignment[0][1] # -1

(***************************************************************************)
(* Variable neighborhood descent of the POO package.  An assignment maps   *)
(* each machine id to the list of its jobs.  generate_one_block_neighbors  *)
(* shuffles the tool ids of each machine with the global random generator: *)
(* the order is an input of the model's generator, and the descent takes   *)
(* whichever order the shuffle may give.                                   *)
(***************************************************************************)
\* Machine._calculate_metrics: the loop over the positions from i
RECURSIVE machine_loop(_, _, _, _, _, _, _)
machine_loop(st, jobs, i, matrix, capacity, tool_change_cost, tasks_cost) ==
    IF i >= Len(jobs) THEN st
    ELSE machine_loop(MachineStep(st, i, jobs[i + 1], matrix, capacity, tool_change_cost, tasks_cost),
                      jobs, i + 1, matrix, capacity, tool_change_cost, tasks_cost)

\* the objectives dictionary of a neighbor: calculate_all_metrics runs every
\* machine's simulation, get_total_tool_switches sums the machines' switches
\* and get_system_makespan takes the largest elapsed time
poo_objectives(assignment, inst) ==
    LET metrics == [ m \in DOMAIN assignment |->
                        IF Len(assignment[m]) = 0
                        THEN [ tool_switches |-> 0, elapsed_time |-> 0 ]
                        ELSE machine_loop(MachineStart(assignment[m], inst.tools_requirements_matrix,
                                                       inst.magazines_capacities[m], inst.num_tools),
                                          assignment[m], 0, inst.tools_requirements_matrix,
                                          inst.magazines_capacities[m], inst.tool_change_costs[m],
                                          inst.job_cost_per_machine[m]) ]
    IN  [ tool_switches |-> SumOver(DOMAIN assignment, [ m \in DOMAIN assignment |-> metrics[m].tool_switches ]),
          makespan |-> MaxOver(DOMAIN assignment, [ m \in DOMAIN assignment |-> metrics[m].elapsed_time ]) ]

\* generate_job_exchange_neighbors
poo_job_exchange(assignment, inst) ==
    LET M == Cardinality(DOMAIN assignment)
        Eligible(j, m) == inst.tools_per_job[j] <= inst.magazines_capacities[m]
    IN  IF M < 2 THEN << >>
        ELSE Concat([ i \in 1..M |-> Concat([ d \in 1..(M - i) |->
                LET m1_id == i - 1
                    m2_id == i + d - 1
                IN  Concat([ job1_idx \in 1..Len(assignment[m1_id]) |->
                        Concat([ job2_idx \in 1..Len(assignment[m2_id]) |->
                            LET job1_id == assignment[m1_id][job1_idx]
                                job2_id == assignment[m2_id][job2_idx]
                            IN  IF Eligible(job2_id, m1_id) /\ Eligible(job1_id, m2_id)
                                THEN << [assignment EXCEPT ![m1_id][job1_idx] = job2_id,
                                                           ![m2_id][job2_idx] = job1_id] >>
                                ELSE << >> ]) ]) ]) ])

\* generate_swap_neighbors
poo_swap(assignment) ==
    LET M == Cardinality(DOMAIN assignment)
    IN  Concat([ mm \in 1..M |->
            LET machine_id == mm - 1
                jobs == assignment[machine_id]
            IN  IF Len(jobs) < 2 THEN << >>
                ELSE Concat([ i \in 1..Len(jobs) |-> [ d \in 1..(Len(jobs) - i) |->
                        [assignment EXCEPT ![machine_id][i] = jobs[i + d],
                                           ![machine_id][i + d] = jobs[i]] ] ]) ])

\* generate_two_opt_neighbors: the slice [i:j] is reversed, j from i + 2
poo_two_opt(assignment) ==
    LET M == Cardinality(DOMAIN assignment)
    IN  Concat([ mm \in 1..M |->
            LET machine_id == mm - 1
                jobs == assignment[machine_id]
            IN  IF Len(jobs) < 2 THEN << >>
                ELSE Concat([ i \in 1..Len(jobs) |-> [ d \in 1..(Len(jobs) - i) |->
                        [assignment EXCEPT ![machine_id] =
                            [ q \in 1..Len(jobs) |->
                                IF q >= i /\ q <= i + d THEN jobs[2 * i + d - q] ELSE jobs[q] ]] ] ]) ])

\* _find_tool_blocks: the 0-based positions at which a block of the tool starts
poo_block_starts(jobs, tool_id, matrix) ==
    LET Uses(q) == tool_id \in matrix[jobs[q]]
        starts == { q \in 1..Len(jobs) : Uses(q) /\ (q = 1 \/ ~Uses(q - 1)) }
    IN  [ b \in 1..Cardinality(starts) |->
            (CHOOSE q \in starts : Cardinality({ p \in starts : p < q }) = b - 1) - 1 ]

\* generate_one_block_neighbors; tool_orders[machine_id] is tool_ids after
\* random.shuffle
poo_one_block(assignment, inst, tool_orders) ==
    LET M == Cardinality(DOMAIN assignment)
    IN  Concat([ mm \in 1..M |->
            LET machine_id == mm - 1
                jobs == assignment[machine_id]
                tool_ids == tool_orders[machine_id]
            IN  Concat([ t \in 1..Len(tool_ids) |->
                    LET blocks == poo_block_starts(jobs, tool_ids[t], inst.tools_requirements_matrix)
                    IN  IF Len(blocks) < 2 THEN << >>
                        ELSE Concat([ remove_idx \in 1..Len(blocks) |->
                                Concat([ insert_idx \in 1..Len(blocks) |->
                                    IF remove_idx = insert_idx THEN << >>
                                    ELSE LET remove_block_start == blocks[remove_idx]
                                             insert_block_start == blocks[insert_idx]
                                             popped == RemoveAt(jobs, remove_block_start + 1)
                                             actual_insert_pos ==
                                                IF remove_block_start > insert_block_start
                                                THEN insert_block_start
                                                ELSE insert_block_start - 1
                                         IN  << [assignment EXCEPT ![machine_id] =
                                                    SubSeq(popped, 1, actual_insert_pos)
                                                    \o << jobs[remove_block_start + 1] >>
                                                    \o SubSeq(popped, actual_insert_pos + 1, Len(popped))] >> ]) ]) ]) ])

\* generate_insertion_neighbors
poo_insertion(assignment, inst) ==
    LET M == Cardinality(DOMAIN assignment)
    IN  Concat([ ss \in 1..M |->
            LET source_machine_id == ss - 1
            IN  Concat([ job_idx_in_source \in 1..Len(assignment[source_machine_id]) |->
                    Concat([ tt \in 1..M |->
                        LET target_machine_id == tt - 1
                            job_to_move_id == assignment[source_machine_id][job_idx_in_source]
                            temp_assignment ==
                                [assignment EXCEPT ![source_machine_id] = RemoveAt(@, job_idx_in_source)]
                            target == temp_assignment[target_machine_id]
                        IN  IF inst.tools_per_job[job_to_move_id] > inst.magazines_capacities[target_machine_id]
                            THEN << >>
                            ELSE [ p \in 1..(Len(target) + 1) |->
                                    [temp_assignment EXCEPT ![target_machine_id] =
                                        SubSeq(target, 1, p - 1) \o << job_to_move_id >>
                                        \o SubSeq(target, p, Len(target))] ] ]) ]) ])

\* neighborhoods[k] applied to the current solution: the lists of neighbors
\* the generator may yield, one for each outcome of its shuffles
poo_neighbors_of(kk, assignment, inst) ==
    CASE kk = 0 -> { poo_job_exchange(assignment, inst) }
      [] kk = 1 -> { poo_swap(assignment) }
      [] kk = 2 -> { poo_two_opt(assignment) }
      [] kk = 3 -> { poo_one_block(assignment, inst, tool_orders) :
                        tool_orders \in [DOMAIN assignment -> Orderings(0..(inst.num_tools - 1))] }
      [] kk = 4 -> { poo_insertion(assignment, inst) }

\* the solution built for a neighbor
PooSolutionOf(assignment, inst) ==
    [ job_assignment |-> assignment, objectives |-> poo_objectives(assignment, inst) ]

\* the for loop over the neighbors of one list: << the neighbor solution that
\* is accepted >>, or << >> when the loop ends without one
poo_first_improvement(nbs, current, x, y, inst) ==
    CHOOSE r \in
        { LET hits == { i \in 1..Len(sols) :
                            /\ sols[i].objectives # current.objectives
                            /\ dominates_on_axes(sols[i].objectives, current.objectives, x, y) }
          IN  IF hits = {} THEN << >>
              ELSE << sols[CHOOSE i \in hits : \A j \in hits : i <= j] >> :
            sols \in { [ i \in 1..Len(nbs) |-> PooSolutionOf(nbs[i], inst) ] } } : TRUE

\* the outcomes of one iteration of the while loop
poo_iteration(kk, current, inst, x, y) ==
    { poo_first_improvement(nbs, current, x, y, inst) :
        nbs \in poo_neighbors_of(kk, current.job_assignment, inst) }

\* an instance of one machine of capacity 3 with six jobs over five tools
PooVndInstance ==
    [ num_jobs |-> 6, num_machines |-> 1, num_tools |-> 5,
      magazines_capacities |-> [ m \in {0} |-> 3 ],
      tool_change_costs |-> [ m \in {0} |-> 1 ],
      job_cost_per_machine |-> [ m \in {0} |-> [ j \in 0..5 |-> 1 ] ],
      tools_requirements_matrix |->
        [ j \in 0..5 |-> CASE j = 0 -> {2, 3, 4} [] j = 1 -> {0} [] j = 2 -> {1, 4}
                           [] j = 3 -> {0, 3} [] j = 4 -> {1} [] j = 5 -> {0, 2} ],
      tools_per_job |->
        [ j \in 0..5 |-> CASE j = 0 -> 3 [] j = 1 -> 1 [] j = 2 -> 2
                           [] j = 3 -> 2 [] j = 4 -> 1 [] j = 5 -> 2 ] ]

PooVndInit ==
    /\ ArchIdle
    /\ EvalIdle
    /\ MoveIdle
    /\ ConIdle
    /\ IlsIdle
    /\ FrameIdle
    /\ instance_data = PooVndInstance
    /\ \E order \in Orderings(0..(instance_data.num_jobs - 1)) :
        /\ initial_solution = PooSolutionOf([ m \in {0} |-> order ], instance_data)
        /\ current_best_solution = PooSolutionOf([ m \in {0} |-> order ], instance_data)
    /\ vnd_obj_x = "tool_switches"
    /\ vnd_obj_y = "makespan"
    /\ vnd_k = 0
    /\ vnd_pc = "loop"

\* an iteration that finds an accepted neighbor
PooVndImprove ==
    /\ vnd_pc = "loop"
    /\ vnd_k < 5
    /\ \E r \in poo_iteration(vnd_k, current_best_solution, instance_data, vnd_obj_x, vnd_obj_y) :
        /\ r # << >>
        /\ current_best_solution' = r[1]
    /\ vnd_k' = 0
    /\ UNCHANGED <<vndRest, instance_data, vnd_pc, initial_solution, vnd_obj_x, vnd_obj_y>>

\* an iteration that finds none
PooVndNextNeighborhood ==
    /\ vnd_pc = "loop"
    /\ vnd_k < 5
    /\ << >> \in poo_iteration(vnd_k, current_best_solution, instance_data, vnd_obj_x, vnd_obj_y)
    /\ vnd_k' = vnd_k + 1
    /\ UNCHANGED <<vndRest, instance_data, vnd_pc, initial_solution, current_best_solution,
                   vnd_obj_x, vnd_obj_y>>

\* the while loop ends
PooVndReturn ==
    /\ vnd_pc = "loop"
    /\ vnd_k = 5
    /\ vnd_pc' = "done"
    /\ UNCHANGED <<vndRest, instance_data, initial_solution, current_best_solution, vnd_k,
                   vnd_obj_x, vnd_obj_y>>

PooVndNext == PooVndImprove \/ PooVndNextNeighborhood \/ PooVndReturn

SpecPooVND == PooVndInit /\ [][PooVndNext]_vars

(***************************************************************************)
(* Properties of the POO descent, checked under SpecPooVND.                *)
(***************************************************************************)
\* C26: the descent is deterministic: from one current solution and one
\* neighborhood index, an iteration of the while loop has a single outcome
\* (the neighbor it accepts, or none), so two runs from the same initial
\* solution with the same axes accept the same solutions and return the same
\* result
C26_VndDeterministic ==
    (vnd_pc = "loop" /\ vnd_k < 5) =>
        Cardinality(poo_iteration(vnd_k, current_best_solution, instance_data,
                                  vnd_obj_x, vnd_obj_y)) = 1

====
